---- MODULE Spec2Model ----
(***************************************************************************)
(* Room chat / quiz client (useRoomSocket, useGameApi, ChatPage) together  *)
(* with the server-side collaborators it talks to (message history, Room   *)
(* Hub, Game Session).  The client is translated from the TypeScript       *)
(* sources; the server side is not part of the client tree and is modelled *)
(* from the design document.                                               *)
(***************************************************************************)
EXTENDS Integers, Sequences, FiniteSets, TLC

----------------------------------------------------------------------------
(* Bounds of the model *)

MaxMsgs == 1
MaxFetches == 1
MaxPosts == 1
MaxInbox == 2
MaxGames == 2
MaxQuestions == 2
MaxDelta == 1
MaxAnswers == 1
MaxChannels == 2
MaxHubEvents == 2
MaxSockets == 3
MaxPings == 4
MaxRooms == 2
MaxCount == 2
MaxRoomEvents == 2
MaxClients == 3
MaxCapacity == 2

----------------------------------------------------------------------------
(* Values *)

\* JavaScript `undefined` for a numeric Message id
UndefinedId == 0

MsgIds == 1..MaxMsgs

\* ids that can carry a grading result: stored messages, graded answers
GradedIds == 1..(IF MaxMsgs > MaxAnswers THEN MaxMsgs ELSE MaxAnswers)

GradingValues == {"none", "result"}

\* Message (types/message): id, author, optional embedded grading result
Message(id, user, gr) == [id |-> id, user_id |-> user, grading_result |-> gr]

NoMessage == Message(UndefinedId, "nobody", "none")

Users == {"me", "other"}

GameIds == 1..MaxGames

\* the per-question budget shown by the client (and counted down by the server)
QuestionBudget == 20

\* JavaScript `undefined` for GameEvent.timeRemaining and for GameEvent.question
UndefinedTime == -1
NoQuestion == 0

\* GameStatus (types/game): game_id, status, current_question_index,
\* total_questions, scores; NoGameStatus stands for null
GameStatus(g, st, idx, total, sc) ==
  [game_id |-> g, status |-> st, current_question_index |-> idx,
   total_questions |-> total, scores |-> sc]

NoScores == [u \in Users |-> 0]

NoGameStatus == GameStatus(0, "null", 0, 0, NoScores)

\* A wire event, by `type` discriminator (types/game GameEvent plus `message`, `pong`)
Event(type, msg, mid, res, gs, q, t) ==
  [type |-> type, message |-> msg, message_id |-> mid, result |-> res,
   gameStatus |-> gs, question |-> q, timeRemaining |-> t]

MessageEvent(m) ==
  Event("message", m, UndefinedId, "none", NoGameStatus, NoQuestion, UndefinedTime)

GradingEvent(mid, res) ==
  Event("game_grading_result", NoMessage, mid, res, NoGameStatus, NoQuestion, UndefinedTime)

StatusEvent(gs) ==
  Event("game_status_update", NoMessage, UndefinedId, "none", gs, NoQuestion, UndefinedTime)

QuestionEvent(q) ==
  Event("game_question", NoMessage, UndefinedId, "none", NoGameStatus, q, UndefinedTime)

TimerEvent(t) ==
  Event("game_timer", NoMessage, UndefinedId, "none", NoGameStatus, NoQuestion, t)

Bare(type) ==
  Event(type, NoMessage, UndefinedId, "none", NoGameStatus, NoQuestion, UndefinedTime)

----------------------------------------------------------------------------
VARIABLES
  \* server: authoritative Message sequence of the room, oldest first
  srvMessages,
  \* useRoomSocket: message state
  messages,        \* useState<Message[]>
  messagesRef,     \* useRef<Message[]>
  loading,         \* useState(true)
  \* requests and events in flight
  fetches,         \* GET /api/rooms/:id/messages, one record per call of fetchMessages
  posts,           \* POST /api/rooms/:id/messages, one record per call of sendMessage
  wsInbox,         \* events delivered on the room channel, not yet handled by ws.onmessage
  \* ChatPage state
  gradingResults,  \* Record<messageId, GradingResult | {loading: true}>
  currentGameId,   \* useState<string | null>, 0 for null
  \* useGameApi: gameState
  gameStatus,
  currentQuestion,
  timeRemaining,
  showHint,
  \* history of the run: the first entry the client saw for each Message id, and
  \* the ids it got from the live stream
  firstSeen,
  liveSeen,
  \* server: Game Sessions of the room
  sessions,        \* game id -> [status, qidx, total, scores]
  roomGame,        \* the room's current Game Session, 0 for none
  nGames,          \* Game Sessions created so far; ids are never reused
  elapsed,         \* seconds since the current question started
  timers,          \* scheduled per-question timer tasks
  nAnswers,        \* answers graded so far
  \* history of the run: countdown values broadcast for the current question, and
  \* every transition out of `playing` of the sessions since the last game start
  tickLog,
  resolutions,
  \* server: Room Hub
  hubRooms,        \* room id -> channels registered to it
  hubSeq,          \* room id -> number of events accepted for it
  chanQueue,       \* channel -> events queued for sending
  chanLog,         \* channel -> events its client has observed since it registered
  chanRoom,        \* channel -> the room it registered to last
  chanRegAt,       \* channel -> hubSeq of its room when it registered
  \* useRoomSocket: connection
  hook,            \* wsRef, connected, timers and counters of the hook
  sockets,         \* every WebSocket the hook has made
  \* history of the run: the last reconnect delay scheduled and the delays of the
  \* reconnect timers that fired, since the last successful open
  connHist,
  \* history of the run: pings sent on the current channel since its last pong
  unanswered,
  \* RoomContext: the room directory
  publicRooms,     \* useState<Room[]>
  creates,         \* POST /api/rooms/create, one record per call of createRoom
  roomFetches,     \* GET /api/rooms/public, one record per call of fetchPublicRooms
  roomsInbox,      \* events delivered on the directory channel, not yet handled
  \* server: the rooms that exist, by id
  srvRooms,
  nRooms,          \* rooms created so far; ids are never reused
  dirSeq,          \* events the directory feed has broadcast so far
  \* server: membership of one room
  members,         \* the clients that are members of the room
  capacity,        \* the room's capacity
  \* RoomContext of each client: joinRoom / leaveRoom
  joinCalls,       \* client -> its POST /join or DELETE /leave in flight
  inRoom,          \* client -> currentRoom is the room
  \* useGameApi: GET /api/game/status/:gameId, one record per run of the effect
  statusFetches,
  \* useRoomSocket across a change of its roomId
  roomId,          \* the roomId the hook was rendered with last, "none" before the first
  fetchRoom,       \* the room each call of fetchMessages asked for
  msgRoom,         \* server: the room of each Message id
  \* useRoomsSocket: the directory channel
  roomsWs,         \* sockets made so far, whether the one in wsRef is open, and
                   \* whether the feed has had an open channel of this client
  \* history of the run: directory events broadcast after the first directory
  \* channel of this client was made that this client did not get
  dirMissed

msgVars == <<messages, messagesRef, loading>>
flightVars == <<fetches, posts>>
chatVars == <<gradingResults, currentGameId>>
gameClientVars == <<gameStatus, currentQuestion, timeRemaining, showHint>>
mergeHistVars == <<firstSeen, liveSeen>>
gameSrvVars == <<sessions, roomGame, nGames, elapsed, timers, nAnswers>>
gameHistVars == <<tickLog, resolutions>>

hubVars == <<hubRooms, hubSeq, chanQueue, chanLog, chanRoom, chanRegAt>>
connVars == <<hook, sockets, connHist>>
beatVars == <<unanswered>>
dirVars == <<publicRooms, creates, roomFetches, roomsInbox, srvRooms, nRooms, dirSeq>>
joinVars == <<members, capacity, joinCalls, inRoom>>
gameFetchVars == <<statusFetches>>
switchVars == <<roomId, fetchRoom, msgRoom>>
feedVars == <<roomsWs, dirMissed>>
restVars == <<joinVars, gameFetchVars, switchVars, feedVars>>

clientVars == <<msgVars, chatVars, gameClientVars, mergeHistVars>>

roomVars == <<srvMessages, flightVars, wsInbox, clientVars, gameSrvVars, gameHistVars>>

vars == <<roomVars, hubVars, connVars, beatVars, dirVars, restVars>>

----------------------------------------------------------------------------
(* Pure helpers *)

RECURSIVE Reverse(_)
\* Array.prototype.reverse
Reverse(s) == IF s = <<>> THEN <<>> ELSE Append(Reverse(Tail(s)), Head(s))

\* messagesRef.current.find((m) => m.id === id), used as a truth value
Exists(ms, id) == \E i \in 1..Len(ms) : ms[i].id = id

\* number of entries of ms whose id is id
Count(ms, id) == Cardinality({i \in 1..Len(ms) : ms[i].id = id})

Entry(ms, id) == ms[CHOOSE i \in 1..Len(ms) : ms[i].id = id]

\* the `if (!exists) { next = [...messagesRef.current, payload] }` of ws.onmessage and sendMessage
MergeOne(ms, payload) == IF Exists(ms, payload.id) THEN ms ELSE Append(ms, payload)

\* fetchMessages: `ordered = data.reverse(); setMessages(ordered); messagesRef.current = ordered`
MergeHistory(ms, data) == Reverse(data)

\* GET /api/rooms/:id/messages answers newest first (the client reverses it)
ServerHistory(ms) == Reverse(ms)

\* ChatPage.handleGradingResult
HandleGradingResult(gr, mid, res) ==
  IF mid # UndefinedId /\ res # "none" THEN [gr EXCEPT ![mid] = res] ELSE gr

RECURSIVE NotifyGraded(_, _)
\* fetchMessages: for every message of the snapshot that carries a grading result,
\* call the handler with a game_grading_result event
NotifyGraded(gr, ordered) ==
  IF ordered = <<>> THEN gr
  ELSE LET m == Head(ordered)
           g == IF m.grading_result # "none"
                THEN HandleGradingResult(gr, m.id, m.grading_result) ELSE gr
       IN NotifyGraded(g, Tail(ordered))

\* ChatPage effect on [socketMessages]: restore grading results carried by the
\* messages, keeping an entry that is in the loading state
RestoreGrading(gr, ms) ==
  [id \in DOMAIN gr |->
     IF /\ Exists(ms, id)
        /\ Entry(ms, id).grading_result # "none"
        /\ gr[id] # "loading"
     THEN Entry(ms, id).grading_result
     ELSE gr[id]]

\* ChatPage callback on waiting_next / finished: drop every entry that is loading
ClearLoading(gr) == [id \in DOMAIN gr |-> IF gr[id] = "loading" THEN "none" ELSE gr[id]]

\* first entry seen for each id
NoteSeen(fs, ms) ==
  [id \in DOMAIN fs |->
     IF fs[id] = NoMessage /\ Exists(ms, id) THEN Entry(ms, id) ELSE fs[id]]

\* `data.timeRemaining || 20`: a falsy countdown value shows the full budget
TimeOrBudget(t) == IF t = UndefinedTime \/ t = 0 THEN QuestionBudget ELSE t

\* `data.timeRemaining || 0`
TimeOrZero(t) == IF t = UndefinedTime \/ t = 0 THEN 0 ELSE t

\* key order of the scores object the server sends
UserOrder == <<"me", "other">>

\* Object.entries(gameState.gameStatus.scores)
ScoreEntries(scores) ==
  [i \in 1..Len(UserOrder) |-> [userId |-> UserOrder[i], score |-> scores[UserOrder[i]]]]

\* a compare function that sorts ascending: `a - b`
ByScoreAsc(a, b) == a.score - b.score

\* the compare function of the score badges: `([, a], [, b]) => b - a`
ByScoreDesc(a, b) == b.score - a.score

RECURSIVE InsertEntry(_, _)
\* e goes after every entry the compare function does not put behind it
InsertEntry(e, s) ==
  IF s = <<>> THEN <<e>>
  ELSE IF ByScoreDesc(Head(s), e) <= 0 THEN <<Head(s)>> \o InsertEntry(e, Tail(s))
  ELSE <<e>> \o s

RECURSIVE SortEntries(_)
\* Array.prototype.sort with the compare function above (stable)
SortEntries(s) ==
  IF s = <<>> THEN <<>>
  ELSE InsertEntry(s[Len(s)], SortEntries(SubSeq(s, 1, Len(s) - 1)))

\* the score badges ChatPage renders, first to last; the first one gets the crown
ScoreBadges(scores) == SortEntries(ScoreEntries(scores))

----------------------------------------------------------------------------
(* Init *)

MergeInit ==
  /\ srvMessages = <<>>
  /\ messages = <<>>
  /\ messagesRef = <<>>
  /\ loading = TRUE
  /\ fetches = <<>>
  /\ posts = <<>>
  /\ wsInbox = <<>>
  /\ gradingResults = [id \in GradedIds |-> "none"]
  /\ currentGameId = 0
  /\ firstSeen = [id \in MsgIds |-> NoMessage]
  /\ liveSeen = {}
  /\ roomId = "none"
  /\ fetchRoom = <<>>
  /\ msgRoom = [id \in MsgIds |-> "none"]

GameClientInit ==
  /\ gameStatus = NoGameStatus
  /\ currentQuestion = NoQuestion
  /\ timeRemaining = 0
  /\ showHint = FALSE
  /\ statusFetches = <<>>

----------------------------------------------------------------------------
(* Server: message history and broadcast for the room *)

\* the Room Hub forwards an event to this client's channel when it is registered
Deliver(inbox, ev, attached) == IF attached THEN Append(inbox, ev) ELSE inbox

\* the channel is opened after the history fetch has been issued
CanDeliver(attached) == attached => (Len(fetches) > 0 /\ Len(wsInbox) < MaxInbox)

\* POST accepted: the message gets the next id, is stored, broadcast, and returned
ServerAcceptPost(k, attached) ==
  /\ posts[k].phase = "requested"
  /\ Len(srvMessages) < MaxMsgs
  /\ CanDeliver(attached)
  /\ LET m == Message(Len(srvMessages) + 1, "me", "none") IN
       /\ srvMessages' = Append(srvMessages, m)
       /\ posts' = [posts EXCEPT ![k].phase = "responded", ![k].sent = m]
       /\ wsInbox' = Deliver(wsInbox, MessageEvent(m), attached)
  /\ UNCHANGED <<fetches, clientVars, gameSrvVars, gameHistVars>>

\* POST refused (res.ok false) or the network failed
ServerRejectPost(k) ==
  /\ posts[k].phase = "requested"
  /\ posts' = [posts EXCEPT ![k].phase = "failed"]
  /\ UNCHANGED <<srvMessages, fetches, wsInbox, clientVars, gameSrvVars, gameHistVars>>

\* a message of another member of the room
ServerAcceptOther(attached) ==
  /\ Len(srvMessages) < MaxMsgs
  /\ CanDeliver(attached)
  /\ LET m == Message(Len(srvMessages) + 1, "other", "none") IN
       /\ srvMessages' = Append(srvMessages, m)
       /\ wsInbox' = Deliver(wsInbox, MessageEvent(m), attached)
  /\ UNCHANGED <<flightVars, clientVars, gameSrvVars, gameHistVars>>

\* a grading result is attached to the stored Message and broadcast
ServerAttachGrading(i, res, attached) ==
  /\ i \in 1..Len(srvMessages)
  /\ srvMessages[i].grading_result = "none"
  /\ res # "none"
  /\ CanDeliver(attached)
  /\ LET m == [srvMessages[i] EXCEPT !.grading_result = res] IN
       /\ srvMessages' = [srvMessages EXCEPT ![i] = m]
       /\ wsInbox' = Deliver(wsInbox, GradingEvent(m.id, m.grading_result), attached)
  /\ UNCHANGED <<flightVars, clientVars, gameSrvVars, gameHistVars>>

\* the history request is answered from the Message sequence as it is now
ServerServeFetch(f) ==
  /\ fetches[f].phase = "requested"
  /\ fetches' = [fetches EXCEPT
                   ![f] = [phase |-> "responded", data |-> ServerHistory(srvMessages)]]
  /\ UNCHANGED <<srvMessages, posts, wsInbox, clientVars, gameSrvVars, gameHistVars>>

\* the history request fails (res.ok false, or fetch throws)
ServerFailFetch(f) ==
  /\ fetches[f].phase = "requested"
  /\ fetches' = [fetches EXCEPT ![f] = [phase |-> "failed", data |-> <<>>]]
  /\ UNCHANGED <<srvMessages, posts, wsInbox, clientVars, gameSrvVars, gameHistVars>>

----------------------------------------------------------------------------
(* Client: useRoomSocket (history fetch, send, ws.onmessage) and ChatPage *)

\* effect `fetchMessages()`: runs at mount and again when roomId changes
FetchMessages ==
  /\ Len(fetches) < MaxFetches
  /\ fetches' = Append(fetches, [phase |-> "requested", data |-> <<>>])
  /\ UNCHANGED <<srvMessages, posts, wsInbox, clientVars, gameSrvVars, gameHistVars>>

\* fetchMessages after `await res.json()`: the snapshot replaces the collection,
\* graded messages are notified to the handler, loading ends
FetchMessagesOk(f) ==
  /\ fetches[f].phase = "responded"
  /\ LET ordered == MergeHistory(messagesRef, fetches[f].data) IN
       /\ messages' = ordered
       /\ messagesRef' = ordered
       /\ gradingResults' = RestoreGrading(NotifyGraded(gradingResults, ordered), ordered)
       /\ firstSeen' = NoteSeen(firstSeen, ordered)
  /\ loading' = FALSE
  /\ fetches' = [fetches EXCEPT ![f] = [phase |-> "done", data |-> <<>>]]
  /\ UNCHANGED <<srvMessages, posts, wsInbox, currentGameId, gameClientVars, liveSeen,
                 gameSrvVars, gameHistVars>>

\* fetchMessages when res.ok is false or fetch threw: only `finally { setLoading(false) }`
FetchMessagesFailed(f) ==
  /\ fetches[f].phase = "failed"
  /\ loading' = FALSE
  /\ fetches' = [fetches EXCEPT ![f] = [phase |-> "error", data |-> <<>>]]
  /\ UNCHANGED <<srvMessages, posts, wsInbox, messages, messagesRef, chatVars,
                 gameClientVars, mergeHistVars, gameSrvVars, gameHistVars>>

\* ChatPage.sendMessage up to the POST of the hook's sendMessage (room set, content
\* not blank); isGameMessage is computed before the request is sent
SendMessage ==
  /\ Len(posts) < MaxPosts
  /\ Len(fetches) > 0
  /\ posts' = Append(posts,
       [phase |-> "requested", sent |-> NoMessage,
        isGameMessage |-> (gameStatus.status = "playing" /\ currentGameId # 0)])
  /\ UNCHANGED <<srvMessages, fetches, wsInbox, clientVars, gameSrvVars, gameHistVars>>

\* the hook's sendMessage after `await res.json()`: append `sent` unless its id is
\* present; then ChatPage marks the message as awaiting its grading
SendMessageOk(k) ==
  /\ posts[k].phase = "responded"
  /\ LET sent == posts[k].sent
         next == MergeOne(messagesRef, sent)
         marked == IF posts[k].isGameMessage /\ sent.id # UndefinedId
                   THEN [gradingResults EXCEPT ![sent.id] = "loading"]
                   ELSE gradingResults IN
       /\ messagesRef' = next
       /\ messages' = next
       /\ gradingResults' = IF next # messages THEN RestoreGrading(marked, next) ELSE marked
       /\ firstSeen' = NoteSeen(firstSeen, next)
  /\ posts' = [posts EXCEPT ![k].phase = "done"]
  /\ UNCHANGED <<srvMessages, fetches, wsInbox, loading, currentGameId, gameClientVars,
                 liveSeen, gameSrvVars, gameHistVars>>

\* sendMessage when res.ok is false or fetch threw: returns null
SendMessageFailed(k) ==
  /\ posts[k].phase = "failed"
  /\ posts' = [posts EXCEPT ![k].phase = "error"]
  /\ UNCHANGED <<srvMessages, fetches, wsInbox, clientVars, gameSrvVars, gameHistVars>>

\* ws.onmessage, the `message` branch and the legacy (untyped) branch
OnMessagePayload(payload) ==
  /\ LET next == MergeOne(messagesRef, payload) IN
       /\ messagesRef' = next
       /\ messages' = next
       /\ gradingResults' = IF next # messages
                            THEN RestoreGrading(gradingResults, next)
                            ELSE gradingResults
       /\ firstSeen' = IF payload.id \in MsgIds THEN NoteSeen(firstSeen, next) ELSE firstSeen
       /\ liveSeen' = liveSeen \cup ({payload.id} \cap MsgIds)
  /\ UNCHANGED <<loading, currentGameId, gameClientVars>>

\* useGameApi.updateGameStateFromWebSocket, the game_status_update branch
ApplyStatusUpdate(newGameStatus) ==
  /\ gameStatus' = newGameStatus
  /\ timeRemaining' = IF newGameStatus.status = "finished" THEN QuestionBudget
                      ELSE timeRemaining
  /\ UNCHANGED <<currentQuestion, showHint>>

\* useGameApi.updateGameStateFromWebSocket, the game_question branch
ApplyQuestion(q) ==
  /\ currentQuestion' = q
  /\ timeRemaining' = QuestionBudget
  /\ showHint' = FALSE
  /\ UNCHANGED gameStatus

\* useGameApi.updateGameStateFromWebSocket, the game_timer branch
ApplyTimer(t) ==
  /\ timeRemaining' = TimeOrZero(t)
  /\ UNCHANGED <<gameStatus, currentQuestion, showHint>>

\* ws.onmessage, game_ and room_updated events: the ChatPage callback, which ends
\* in useGameApi.updateGameStateFromWebSocket(data, handleGradingResult)
OnGameEvent(data) ==
  /\ IF data.type = "game_status_update" /\ data.gameStatus.game_id # 0
     THEN /\ currentGameId' = data.gameStatus.game_id
          /\ gradingResults' = IF data.gameStatus.status \in {"waiting_next", "finished"}
                               THEN ClearLoading(gradingResults)
                               ELSE gradingResults
     ELSE /\ currentGameId' = currentGameId
          /\ gradingResults' =
               IF data.type = "game_grading_result"
               THEN HandleGradingResult(gradingResults, data.message_id, data.result)
               ELSE gradingResults
  /\ CASE data.type = "game_status_update" -> ApplyStatusUpdate(data.gameStatus)
       [] data.type = "game_question" -> ApplyQuestion(data.question)
       [] data.type = "game_hint" -> /\ showHint' = TRUE
                                     /\ UNCHANGED <<gameStatus, currentQuestion, timeRemaining>>
       [] data.type = "game_timer" -> ApplyTimer(data.timeRemaining)
       [] OTHER -> UNCHANGED gameClientVars
  /\ UNCHANGED <<msgVars, mergeHistVars>>

IsGameType(t) == t \in {"game_status_update", "game_question", "game_hint", "game_timer",
                        "game_grading_result", "game_ranking"}

\* payloads that are not JSON: JSON.parse throws and the catch logs
Malformed == Bare("malformed")

\* event types ws.onmessage has no branch for; `ping` is the liveness request
UnrecognizedTypes == {"ping", "room_created"}

\* `data as Message` for an event object: it has no id, user or grading result
AsMessage(data) == NoMessage

\* ws.onmessage
WsOnMessage ==
  /\ wsInbox # <<>>
  /\ LET data == Head(wsInbox) IN
       IF data = Malformed \/ data.type = "pong"
       THEN UNCHANGED clientVars
       ELSE IF IsGameType(data.type) \/ data.type = "room_updated"
       THEN OnGameEvent(data)
       ELSE IF data.type = "message"
       THEN OnMessagePayload(data.message)
       ELSE OnMessagePayload(AsMessage(data))
  /\ wsInbox' = Tail(wsInbox)
  /\ UNCHANGED <<srvMessages, flightVars, gameSrvVars, gameHistVars>>

----------------------------------------------------------------------------
(* Server: Game Session state machine of the room *)

NoSession == [status |-> "none", qidx |-> 0, total |-> 0, scores |-> NoScores]

GameSrvInit ==
  /\ sessions = [g \in GameIds |-> NoSession]
  /\ roomGame = 0
  /\ nGames = 0
  /\ elapsed = 0
  /\ timers = {}
  /\ nAnswers = 0
  /\ tickLog = <<>>
  /\ resolutions = <<>>

Created == 1..nGames

\* the status snapshot carried by game_status_update
Snapshot(g, s) == GameStatus(g, s.status, s.qidx, s.total, s.scores)

\* every broadcast goes to the room's channels in the order given
GameBroadcast(evs) ==
  /\ Len(wsInbox) + Len(evs) <= MaxInbox
  /\ wsInbox' = wsInbox \o evs

\* the per-question timer task of question q of game g
TimerTask(g, q) == [game |-> g, q |-> q, cancelled |-> FALSE]

\* a cancelled task: it stays scheduled until its natural expiry, and does nothing then
CancelledTask == [game |-> 0, q |-> 0, cancelled |-> TRUE]

\* a cancel that does nothing
CancelNothing(ts) == ts

\* cancelling is idempotent: a task that fired is gone, a cancelled one stays cancelled
CancelTimers(ts) == {CancelledTask : t \in ts}

\* a resolution that hands the session back to `ready`
BackToReady(qidx, total) == "ready"

\* where `playing` goes when question qidx of `total` is resolved
AfterQuestion(qidx, total) == IF qidx + 1 < total THEN "waiting_next" ELSE "finished"

\* a superseded session is logically destroyed: nothing of it is kept
Supersede(ss, g) == IF g = 0 THEN ss ELSE [ss EXCEPT ![g] = NoSession]

\* a game-start request: a fresh session supersedes the room's current one
StartQuiz(total) ==
  /\ nGames < MaxGames
  /\ nGames' = nGames + 1
  /\ LET g == nGames'
         s == [status |-> "generating", qidx |-> 0, total |-> total, scores |-> NoScores] IN
       /\ sessions' = [Supersede(sessions, roomGame) EXCEPT ![g] = s]
       /\ roomGame' = g
       /\ GameBroadcast(<<StatusEvent(Snapshot(g, s))>>)
  /\ timers' = CancelTimers(timers)
  /\ elapsed' = 0
  /\ tickLog' = <<>>
  /\ resolutions' = <<>>
  /\ UNCHANGED <<nAnswers, srvMessages, flightVars, clientVars>>

\* the generation collaborator delivered the questions
GenerationDone ==
  /\ roomGame # 0
  /\ sessions[roomGame].status = "generating"
  /\ LET s == [sessions[roomGame] EXCEPT !.status = "ready"] IN
       /\ sessions' = [sessions EXCEPT ![roomGame] = s]
       /\ GameBroadcast(<<StatusEvent(Snapshot(roomGame, s))>>)
  /\ UNCHANGED <<roomGame, nGames, elapsed, timers, nAnswers, gameHistVars, srvMessages,
                 flightVars, clientVars>>

\* the generation collaborator failed: the session is abandoned, no state is kept
GenerationFailed ==
  /\ roomGame # 0
  /\ sessions[roomGame].status = "generating"
  /\ roomGame' = 0
  /\ sessions' = Supersede(sessions, roomGame)
  /\ UNCHANGED <<nGames, elapsed, timers, nAnswers, gameHistVars, srvMessages,
                 flightVars, wsInbox, clientVars>>

\* entering `playing` with question q: deadline armed, status and question broadcast
EnterPlaying(q) ==
  LET s == [sessions[roomGame] EXCEPT !.status = "playing", !.qidx = q] IN
    /\ sessions' = [sessions EXCEPT ![roomGame] = s]
    /\ elapsed' = 0
    /\ timers' = timers \cup {TimerTask(roomGame, q)}
    /\ tickLog' = <<>>
    /\ GameBroadcast(<<StatusEvent(Snapshot(roomGame, s)), QuestionEvent(q + 1)>>)

\* ready -> playing, on the server's start signal
StartPlaying ==
  /\ roomGame # 0
  /\ sessions[roomGame].status = "ready"
  /\ EnterPlaying(0)
  /\ UNCHANGED <<roomGame, nGames, nAnswers, resolutions, srvMessages, flightVars, clientVars>>

\* waiting_next -> playing with the next question, or finished when none is left
NextQuestion ==
  /\ roomGame # 0
  /\ sessions[roomGame].status = "waiting_next"
  /\ IF sessions[roomGame].qidx + 1 < sessions[roomGame].total
     THEN EnterPlaying(sessions[roomGame].qidx + 1)
     ELSE LET s == [sessions[roomGame] EXCEPT !.status = "finished"] IN
            /\ sessions' = [sessions EXCEPT ![roomGame] = s]
            /\ GameBroadcast(<<StatusEvent(Snapshot(roomGame, s))>>)
            /\ UNCHANGED <<elapsed, timers, tickLog>>
  /\ UNCHANGED <<roomGame, nGames, nAnswers, resolutions, srvMessages, flightVars, clientVars>>

\* one second of the question timer: the countdown is broadcast, and at the
\* deadline the task is done and the question resolves
TimerTick(t) ==
  /\ t \in timers
  /\ ~t.cancelled
  /\ elapsed < QuestionBudget
  /\ elapsed' = elapsed + 1
  /\ tickLog' = Append(tickLog, QuestionBudget - elapsed')
  /\ IF elapsed' < QuestionBudget
     THEN /\ GameBroadcast(<<TimerEvent(QuestionBudget - elapsed')>>)
          /\ UNCHANGED <<sessions, timers, resolutions>>
     ELSE LET cur == sessions[t.game]
              s == [cur EXCEPT !.status = AfterQuestion(cur.qidx, cur.total)] IN
            /\ sessions' = [sessions EXCEPT ![t.game] = s]
            /\ timers' = timers \ {t}
            /\ resolutions' = Append(resolutions,
                 [game |-> t.game, q |-> t.q])
            /\ GameBroadcast(<<TimerEvent(QuestionBudget - elapsed'),
                               StatusEvent(Snapshot(t.game, s))>>)
  /\ UNCHANGED <<roomGame, nGames, nAnswers, srvMessages, flightVars, clientVars>>

\* a cancelled task reaches its natural expiry: nothing happens
CancelledTimerExpires(t) ==
  /\ t \in timers
  /\ t.cancelled
  /\ timers' = timers \ {t}
  /\ UNCHANGED <<sessions, roomGame, nGames, elapsed, nAnswers, gameHistVars, srvMessages,
                 flightVars, wsInbox, clientVars>>

\* the score map after participant p is graded correct with score delta d
AddScore(scores, p, d) == [scores EXCEPT ![p] = @ + d]

\* an answer of participant p is graded while the question is active; a correct
\* one adds its delta, cancels the timer and resolves the question at once
GradeAnswer(p, correct, d) ==
  /\ roomGame # 0
  /\ sessions[roomGame].status = "playing"
  /\ nAnswers < MaxAnswers
  /\ nAnswers' = nAnswers + 1
  /\ IF correct
     THEN LET cur == sessions[roomGame]
              s == [cur EXCEPT !.status = AfterQuestion(cur.qidx, cur.total),
                               !.scores = AddScore(cur.scores, p, d)] IN
            /\ sessions' = [sessions EXCEPT ![roomGame] = s]
            /\ timers' = CancelTimers(timers)
            /\ elapsed' = 0
            /\ tickLog' = <<>>
            /\ resolutions' = Append(resolutions,
                 [game |-> roomGame, q |-> cur.qidx])
            /\ GameBroadcast(<<GradingEvent(nAnswers', "result"),
                               StatusEvent(Snapshot(roomGame, s))>>)
     ELSE /\ GameBroadcast(<<GradingEvent(nAnswers', "result")>>)
          /\ UNCHANGED <<sessions, timers, resolutions, elapsed, tickLog>>
  /\ UNCHANGED <<roomGame, nGames, srvMessages, flightVars, clientVars>>

----------------------------------------------------------------------------
(* Server: Room Hub (registry of the channels of each room, broadcast) *)

Rooms == {"X", "Y"}

Channels == 1..MaxChannels

HubInit ==
  /\ hubRooms = [r \in Rooms |-> {}]
  /\ hubSeq = [r \in Rooms |-> 0]
  /\ chanQueue = [c \in Channels |-> <<>>]
  /\ chanLog = [c \in Channels |-> <<>>]
  /\ chanRoom = [c \in Channels |-> "none"]
  /\ chanRegAt = [c \in Channels |-> 0]

Registered == UNION {hubRooms[r] : r \in Rooms}

\* the n-th event the hub accepted for room r
HubEvent(r, n) == [room |-> r, n |-> n]

\* a hub that puts the newest event at the head of each queue
FanoutNewestFirst(queues, r, ev) ==
  [c \in Channels |-> IF c \in hubRooms[r] THEN <<ev>> \o queues[c] ELSE queues[c]]

\* a hub that sends to every registered channel, whatever its room
FanoutEveryRoom(queues, r, ev) ==
  [c \in Channels |-> IF c \in UNION {hubRooms[x] : x \in Rooms}
                       THEN Append(queues[c], ev) ELSE queues[c]]

\* broadcast(roomId, event): the event is queued, in acceptance order, on every
\* channel registered to the room, and on no other
Fanout(queues, r, ev) ==
  [c \in Channels |-> IF c \in hubRooms[r] THEN Append(queues[c], ev) ELSE queues[c]]

\* register(channel, roomId): the channel sees events from here on
HubRegister(c, r) ==
  /\ c \notin Registered
  /\ hubRooms' = [hubRooms EXCEPT ![r] = @ \cup {c}]
  /\ chanQueue' = [chanQueue EXCEPT ![c] = <<>>]
  /\ chanLog' = [chanLog EXCEPT ![c] = <<>>]
  /\ chanRoom' = [chanRoom EXCEPT ![c] = r]
  /\ chanRegAt' = [chanRegAt EXCEPT ![c] = hubSeq[r]]
  /\ UNCHANGED hubSeq

\* unregister(channel), atomically with the close of the channel; what was queued
\* for it is dropped
HubUnregister(c) ==
  /\ c \in Registered
  /\ hubRooms' = [r \in Rooms |-> hubRooms[r] \ {c}]
  /\ chanQueue' = [chanQueue EXCEPT ![c] = <<>>]
  /\ UNCHANGED <<hubSeq, chanLog, chanRoom, chanRegAt>>

\* broadcast(roomId, event)
HubBroadcast(r) ==
  /\ hubSeq[r] < MaxHubEvents
  /\ hubSeq' = [hubSeq EXCEPT ![r] = @ + 1]
  /\ chanQueue' = Fanout(chanQueue, r, HubEvent(r, hubSeq[r] + 1))
  /\ UNCHANGED <<hubRooms, chanLog, chanRoom, chanRegAt>>

\* the transport hands the oldest queued event to the channel's client
ChannelReceive(c) ==
  /\ chanQueue[c] # <<>>
  /\ chanLog' = [chanLog EXCEPT ![c] = Append(@, Head(chanQueue[c]))]
  /\ chanQueue' = [chanQueue EXCEPT ![c] = Tail(@)]
  /\ UNCHANGED <<hubRooms, hubSeq, chanRoom, chanRegAt>>

\* a send to the channel fails: the channel is closed and unregistered, the other
\* channels of the room are not affected
ChannelSendFails(c) ==
  /\ chanQueue[c] # <<>>
  /\ hubRooms' = [r \in Rooms |-> hubRooms[r] \ {c}]
  /\ chanQueue' = [chanQueue EXCEPT ![c] = <<>>]
  /\ UNCHANGED <<hubSeq, chanLog, chanRoom, chanRegAt>>

----------------------------------------------------------------------------
(* Client: useRoomSocket connection life cycle (connect, heartbeat, reconnect) *)

maxReconnectAttempts == 5
baseReconnectDelay == 2000
maxReconnectDelay == 30000
promoteAfterAttempts == 2
lastUrlIndex == 1

SocketIds == 1..MaxSockets

\* reconnectTimeoutRef: the delay of the pending reconnect timer, NoTimeout for none
NoTimeout == 0

NoSocket == [readyState |-> "NONE", connectionTimeout |-> FALSE, heartbeatStart |-> FALSE,
             opened |-> FALSE, url |-> 0]

\* refs and state of the hook right after the first render, before any effect ran;
\* preferDirectOnDev is `window.location.port === "3000"`
ConnInitIn(D) ==
  /\ hook \in {[wsRef |-> 0, connected |-> FALSE, reconnectTimeout |-> NoTimeout,
                heartbeatInterval |-> FALSE, intervals |-> 0,
                reconnectAttempts |-> 0, wsUrlIndex |-> 0, connectTimer |-> FALSE,
                mounted |-> FALSE, preferDirectOnDev |-> d] : d \in D}
  /\ sockets = [s \in SocketIds |-> NoSocket]
  /\ connHist = [lastDelay |-> 0, fired |-> <<>>]

Conn == [hook |-> hook, sockets |-> sockets, hist |-> connHist]

\* a socket that is CLOSED with none of its timers pending can do nothing more:
\* its slot is free for the next `new WebSocket`
Collect(ss) ==
  [s \in SocketIds |->
     IF ss[s].readyState = "CLOSED" /\ ~ss[s].connectionTimeout /\ ~ss[s].heartbeatStart
     THEN NoSocket ELSE ss[s]]

SetConn(st) ==
  /\ hook' = st.hook
  /\ sockets' = Collect(st.sockets)
  /\ connHist' = st.hist

Used == {s \in SocketIds : sockets[s].readyState # "NONE"}

FreeSocket == CHOOSE s \in SocketIds : s \notin Used /\ \A r \in SocketIds \ Used : s <= r

RECURSIVE Pow2(_)
\* Math.pow(2, n)
Pow2(n) == IF n = 0 THEN 1 ELSE 2 * Pow2(n - 1)

Min(a, b) == IF a < b THEN a ELSE b

\* a backoff with no ceiling: `baseReconnectDelay * Math.pow(2, attempts)`
ReconnectDelayUncapped(attempts) == baseReconnectDelay * Pow2(attempts)

\* the backoff of the older copy of the hook, which starts at one second
ReconnectDelayFromOneSecond(attempts) == Min(1000 * Pow2(attempts), maxReconnectDelay)

\* scheduleReconnect: `Math.min(baseReconnectDelay * Math.pow(2, attempts), 30000)`
ReconnectDelay(attempts) == Min(baseReconnectDelay * Pow2(attempts), maxReconnectDelay)

\* wsRef.current && (readyState === OPEN || readyState === CONNECTING)
Live(st) ==
  /\ st.hook.wsRef # 0
  /\ st.sockets[st.hook.wsRef].readyState \in {"OPEN", "CONNECTING"}

\* scheduleReconnect
ScheduleReconnect(st) ==
  IF Live(st) THEN st
  ELSE IF st.hook.reconnectAttempts >= maxReconnectAttempts
  THEN [st EXCEPT !.hook.reconnectTimeout = NoTimeout, !.hook.connected = FALSE]
  ELSE [st EXCEPT !.hook.reconnectTimeout = ReconnectDelay(st.hook.reconnectAttempts),
                  !.hist.lastDelay = ReconnectDelay(st.hook.reconnectAttempts)]

\* stopHeartbeat: clearInterval of the interval in heartbeatIntervalRef, if any
StopHeartbeat(st) ==
  IF st.hook.heartbeatInterval
  THEN [st EXCEPT !.hook.heartbeatInterval = FALSE, !.hook.intervals = @ - 1]
  ELSE st

\* startHeartbeat: clear the interval in heartbeatIntervalRef, if any, and set a
\* new one
StartHeartbeat(st) ==
  [StopHeartbeat(st) EXCEPT !.hook.heartbeatInterval = TRUE, !.hook.intervals = @ + 1]

\* WebSocket.close(): CONNECTING and OPEN sockets start closing
CloseSocket(st, s) ==
  IF s # 0 /\ st.sockets[s].readyState \in {"CONNECTING", "OPEN"}
  THEN [st EXCEPT !.sockets[s].readyState = "CLOSING"]
  ELSE st

\* a target choice that stays on the same-origin target whatever the index is
WsUrlIgnoresIndex(h) == IF h.preferDirectOnDev THEN 1 ELSE 0

\* `preferDirectOnDev ? direct8000 : candidates[wsUrlIndexRef.current] || sameOrigin`
WsUrl(h) == IF h.preferDirectOnDev THEN 1
            ELSE IF h.wsUrlIndex \in {0, 1} THEN h.wsUrlIndex ELSE 0

\* connectWebSocket; s is the socket `new WebSocket(wsUrl)` makes, unless it throws
ConnectWebSocket(st, s, throws) ==
  IF Live(st) THEN st
  ELSE IF throws THEN ScheduleReconnect(st)
  ELSE [st EXCEPT !.hook.wsRef = s,
                  !.sockets[s] = [readyState |-> "CONNECTING", connectionTimeout |-> TRUE,
                                  heartbeatStart |-> FALSE, opened |-> FALSE,
                                  url |-> WsUrl(st.hook)]]

\* if (reconnectAttemptsRef.current >= 2) wsUrlIndexRef.current = Math.min(index + 1, 1)
PromoteUrl(st) ==
  IF st.hook.reconnectAttempts >= promoteAfterAttempts
  THEN [st EXCEPT !.hook.wsUrlIndex = Min(@ + 1, lastUrlIndex)]
  ELSE st

\* ws.onopen
OnOpen(st, s) ==
  [st EXCEPT !.sockets[s].connectionTimeout = FALSE,
             !.sockets[s].heartbeatStart = TRUE,
             !.hook.connected = TRUE,
             !.hook.reconnectAttempts = 0,
             !.hist = [lastDelay |-> 0, fired |-> <<>>]]

\* an onclose that reconnects whatever the close code is
OnCloseAnyCode(st, s, code) ==
  LET st1 == [st EXCEPT !.sockets[s].connectionTimeout = FALSE] IN
    IF st1.hook.wsRef # s THEN st1
    ELSE ScheduleReconnect(PromoteUrl(
           StopHeartbeat([st1 EXCEPT !.hook.connected = FALSE, !.hook.wsRef = 0])))

\* an onclose that leaves the heartbeat running
OnCloseKeepsHeartbeat(st, s, code) ==
  LET st1 == [st EXCEPT !.sockets[s].connectionTimeout = FALSE] IN
    IF st1.hook.wsRef # s THEN st1
    ELSE LET st2 == [st1 EXCEPT !.hook.connected = FALSE, !.hook.wsRef = 0] IN
           IF code # 1000 /\ code # 1001
           THEN ScheduleReconnect(PromoteUrl(st2))
           ELSE st2

\* an onclose without the test `wsRef.current !== ws`
OnCloseOfAnySocket(st, s, code) ==
  LET st1 == [st EXCEPT !.sockets[s].connectionTimeout = FALSE]
      st2 == StopHeartbeat([st1 EXCEPT !.hook.connected = FALSE, !.hook.wsRef = 0]) IN
    IF code # 1000 /\ code # 1001
    THEN ScheduleReconnect(PromoteUrl(st2))
    ELSE st2

\* ws.onclose
OnClose(st, s, code) ==
  LET st1 == [st EXCEPT !.sockets[s].connectionTimeout = FALSE] IN
    IF st1.hook.wsRef # s THEN st1
    ELSE LET st2 == StopHeartbeat([st1 EXCEPT !.hook.connected = FALSE, !.hook.wsRef = 0]) IN
           IF code # 1000 /\ code # 1001
           THEN ScheduleReconnect(PromoteUrl(st2))
           ELSE st2

\* ws.onerror
OnError(st, s) ==
  LET st1 == [st EXCEPT !.sockets[s].connectionTimeout = FALSE] IN
    IF st1.hook.wsRef # s THEN st1
    ELSE IF st1.sockets[s].readyState = "CLOSED"
    THEN ScheduleReconnect(PromoteUrl(st1))
    ELSE st1

\* the connect effect: close what is there, stop the heartbeat, connect in 100 ms
ConnectEffect(st) ==
  LET st1 == CloseSocket(st, st.hook.wsRef) IN
    [StopHeartbeat(st1) EXCEPT !.hook.wsRef = 0, !.hook.connectTimer = TRUE,
                               !.hook.mounted = TRUE]

\* a cleanup that leaves the reconnect timer running
ConnectCleanupKeepsTimer(st) ==
  LET st1 == CloseSocket(st, st.hook.wsRef) IN
    [StopHeartbeat(st1) EXCEPT !.hook.connectTimer = FALSE,
                               !.hook.wsRef = 0,
                               !.hook.connected = FALSE,
                               !.hook.mounted = FALSE]

\* a cleanup that forgets its socket without closing it
ConnectCleanupLeavesSocket(st) ==
  [StopHeartbeat(st) EXCEPT !.hook.connectTimer = FALSE,
                            !.hook.reconnectTimeout = NoTimeout,
                            !.hook.wsRef = 0,
                            !.hook.connected = FALSE,
                            !.hook.mounted = FALSE]

\* the cleanup of the connect effect
ConnectCleanup(st) ==
  LET st1 == CloseSocket(st, st.hook.wsRef) IN
    [StopHeartbeat(st1) EXCEPT !.hook.connectTimer = FALSE,
                               !.hook.reconnectTimeout = NoTimeout,
                               !.hook.wsRef = 0,
                               !.hook.connected = FALSE,
                               !.hook.mounted = FALSE]

\* the hook is mounted with a room: the connect effect runs
Mount ==
  /\ ~hook.mounted
  /\ SetConn(ConnectEffect(Conn))

\* the hook is unmounted: the cleanup runs
Unmount ==
  /\ hook.mounted
  /\ SetConn(ConnectCleanup(Conn))

\* roomId (or connectWebSocket) changed: cleanup, then the effect again
RoomChange ==
  /\ hook.mounted
  /\ SetConn(ConnectEffect(ConnectCleanup(Conn)))

\* the 100 ms connectTimer of the effect fires
ConnectTimerFires(throws) ==
  /\ hook.connectTimer
  /\ Used # SocketIds
  /\ SetConn(ConnectWebSocket([Conn EXCEPT !.hook.connectTimer = FALSE],
                              FreeSocket, throws))

\* the reconnect timer fires: `reconnectAttemptsRef.current++; connectWebSocket()`
ReconnectTimerFires(throws) ==
  /\ hook.reconnectTimeout # NoTimeout
  /\ Used # SocketIds
  /\ SetConn(ConnectWebSocket(
       [Conn EXCEPT !.hook.reconnectTimeout = NoTimeout,
                    !.hook.reconnectAttempts = @ + 1,
                    !.hist.fired = Append(@, hook.reconnectTimeout)],
       FreeSocket, throws))

\* the 5 s connectionTimeout of socket s fires
ConnectionTimeoutFires(s) ==
  /\ sockets[s].connectionTimeout
  /\ LET st == [Conn EXCEPT !.sockets[s].connectionTimeout = FALSE] IN
       IF sockets[s].readyState = "CONNECTING"
       THEN SetConn(ScheduleReconnect(CloseSocket(st, s)))
       ELSE SetConn(st)

\* the connection of socket s is established: ws.onopen
SocketOpens(s) ==
  /\ sockets[s].readyState = "CONNECTING"
  /\ SetConn(OnOpen([Conn EXCEPT !.sockets[s].readyState = "OPEN",
                                 !.sockets[s].opened = TRUE], s))

\* the connection of socket s cannot be established: error, then close 1006
SocketFails(s) ==
  /\ sockets[s].readyState = "CONNECTING"
  /\ SetConn(OnClose(OnError([Conn EXCEPT !.sockets[s].readyState = "CLOSED"], s), s, 1006))

\* the open connection of socket s ends from the far side: a clean close (1000,
\* 1001) or a drop (1006, with or without an error event)
SocketDrops(s, code, withError) ==
  /\ sockets[s].readyState = "OPEN"
  /\ withError => code = 1006
  /\ LET st == [Conn EXCEPT !.sockets[s].readyState = "CLOSED"] IN
       SetConn(OnClose(IF withError THEN OnError(st, s) ELSE st, s, code))

\* a socket closed by the client reaches CLOSED: one that never opened fails
\* (error, close 1006), one that was open ends its handshake (1000) or not (1006)
SocketClosed(s, code) ==
  /\ sockets[s].readyState = "CLOSING"
  /\ ~sockets[s].opened => code = 1006
  /\ LET st == [Conn EXCEPT !.sockets[s].readyState = "CLOSED"] IN
       SetConn(OnClose(IF sockets[s].opened THEN st ELSE OnError(st, s), s, code))

\* the 1 s timer set by ws.onopen fires: startHeartbeat if s is still current and open
HeartbeatStartFires(s) ==
  /\ sockets[s].heartbeatStart
  /\ LET st == [Conn EXCEPT !.sockets[s].heartbeatStart = FALSE] IN
       IF hook.wsRef = s /\ sockets[s].readyState = "OPEN"
       THEN SetConn(StartHeartbeat(st))
       ELSE SetConn(st)

\* a 30 s heartbeat interval fires: ping, or stop when the socket is not open or
\* the send throws
HeartbeatTick(sendThrows) ==
  /\ hook.intervals > 0
  /\ IF hook.wsRef # 0 /\ sockets[hook.wsRef].readyState = "OPEN" /\ ~sendThrows
     THEN SetConn(Conn)
     ELSE SetConn(StopHeartbeat(Conn))

CloseCodes == {1000, 1001, 1006}

----------------------------------------------------------------------------
(* Client: RoomContext (room directory) and the server's directory feed *)

DirIds == 1..MaxRooms

\* visibility of a room; `private` stands for every value that is not listed
Visibilities == {"public", "private"}

\* Room (types/room), the fields the directory logic reads
DirRoom(id, count, vis) == [id |-> id, member_count |-> count, visibility |-> vis]

NoRoom == DirRoom(0, 0, "none")

\* RoomsEvent (useRoomsSocket)
RoomCreated(room) == [type |-> "room_created", room |-> room, room_id |-> 0]
RoomUpdated(id, count) ==
  [type |-> "room_updated", room |-> DirRoom(id, count, "undefined"), room_id |-> 0]
RoomDeleted(id) == [type |-> "room_deleted", room |-> NoRoom, room_id |-> id]

\* RoomProvider right after its first render; the server has n public rooms,
\* which the client has yet to learn of
DirInitIn(N) ==
  /\ publicRooms = <<>>
  /\ creates = <<>>
  /\ roomFetches = <<>>
  /\ roomsInbox = <<>>
  /\ nRooms \in N
  /\ srvRooms = [id \in DirIds |-> IF id <= nRooms THEN DirRoom(id, 1, "public") ELSE NoRoom]
  /\ dirSeq = 0
  /\ roomsWs = [made |-> 0, open |-> FALSE, heard |-> FALSE]
  /\ dirMissed = 0

\* prev.some((r) => r.id === id)
Some(prev, id) == \E i \in 1..Len(prev) : prev[i].id = id

\* data.visibility === "public" || data.visibility === "passcode"
IsListed(room) == room.visibility = "public" \/ room.visibility = "passcode"

\* an add that does not look for the id first: `[room, ...prev]`
AddRoomNoCheck(prev, room) == IF IsListed(room) THEN <<room>> \o prev ELSE prev

\* the updater of createRoom and of room_created: a listed room that is not yet
\* present goes to the front
AddRoom(prev, room) ==
  IF ~IsListed(room) THEN prev
  ELSE IF Some(prev, room.id) THEN prev
  ELSE <<room>> \o prev

\* an update that adds the room when it is not present
UpdateOrAddRoom(prev, updated) ==
  IF Some(prev, updated.id)
  THEN [i \in 1..Len(prev) |->
          IF prev[i].id = updated.id
          THEN [prev[i] EXCEPT !.member_count = updated.member_count] ELSE prev[i]]
  ELSE Append(prev, updated)

\* the updater of room_updated:
\* prev.map((r) => r.id === updated.id ? { ...r, member_count: updated.member_count } : r)
UpdateRoom(prev, updated) ==
  [i \in 1..Len(prev) |->
     IF prev[i].id = updated.id
     THEN [prev[i] EXCEPT !.member_count = updated.member_count] ELSE prev[i]]

RECURSIVE RemoveRoom(_, _)
\* the updater of room_deleted: prev.filter((r) => r.id !== id)
RemoveRoom(prev, id) ==
  IF prev = <<>> THEN <<>>
  ELSE IF Head(prev).id # id THEN <<Head(prev)>> \o RemoveRoom(Tail(prev), id)
  ELSE RemoveRoom(Tail(prev), id)

\* the directory feed broadcasts one more event; this client's channel is attached
DirBroadcast(ev) ==
  /\ dirSeq < MaxRoomEvents
  /\ dirSeq' = dirSeq + 1
  /\ roomsInbox' = Append(roomsInbox, ev)

RECURSIVE ListedFrom(_)
\* GET /api/rooms/public: the listed rooms that exist, newest first
ListedFrom(id) ==
  IF id = 0 THEN <<>>
  ELSE IF srvRooms[id] # NoRoom /\ IsListed(srvRooms[id])
  THEN <<srvRooms[id]>> \o ListedFrom(id - 1)
  ELSE ListedFrom(id - 1)

\* POST /api/rooms/create accepted: the room gets the next id, its creator is its
\* first member, room_created is broadcast and the room is returned
ServerCreatesRoom(k, vis) ==
  /\ creates[k].phase = "requested"
  /\ nRooms < MaxRooms
  /\ LET room == DirRoom(nRooms + 1, 1, vis) IN
       /\ srvRooms' = [srvRooms EXCEPT ![nRooms + 1] = room]
       /\ creates' = [creates EXCEPT ![k] = [phase |-> "responded", data |-> room]]
       /\ DirBroadcast(RoomCreated(room))
  /\ nRooms' = nRooms + 1
  /\ UNCHANGED <<publicRooms, roomFetches>>

\* POST /api/rooms/create refused: data is null
ServerRefusesRoom(k) ==
  /\ creates[k].phase = "requested"
  /\ creates' = [creates EXCEPT ![k] = [phase |-> "responded", data |-> NoRoom]]
  /\ UNCHANGED <<publicRooms, roomFetches, roomsInbox, srvRooms, nRooms, dirSeq>>

\* another client creates a room
ServerCreatesOther(vis) ==
  /\ nRooms < MaxRooms
  /\ LET room == DirRoom(nRooms + 1, 1, vis) IN
       /\ srvRooms' = [srvRooms EXCEPT ![nRooms + 1] = room]
       /\ DirBroadcast(RoomCreated(room))
  /\ nRooms' = nRooms + 1
  /\ UNCHANGED <<publicRooms, creates, roomFetches>>

\* a member joins room id: room_updated carries the new member count
ServerUpdatesRoom(id, count) ==
  /\ srvRooms[id] # NoRoom
  /\ count = srvRooms[id].member_count + 1
  /\ srvRooms' = [srvRooms EXCEPT ![id].member_count = count]
  /\ DirBroadcast(RoomUpdated(id, count))
  /\ UNCHANGED <<publicRooms, creates, roomFetches, nRooms>>

\* room id is deleted
ServerDeletesRoom(id) ==
  /\ srvRooms[id] # NoRoom
  /\ srvRooms' = [srvRooms EXCEPT ![id] = NoRoom]
  /\ DirBroadcast(RoomDeleted(id))
  /\ UNCHANGED <<publicRooms, creates, roomFetches, nRooms>>

\* GET /api/rooms/public is answered from the rooms as they are now
ServerServesRooms(f) ==
  /\ roomFetches[f].phase = "requested"
  /\ roomFetches' = [roomFetches EXCEPT
                       ![f] = [phase |-> "responded", data |-> ListedFrom(nRooms)]]
  /\ UNCHANGED <<publicRooms, creates, roomsInbox, srvRooms, nRooms, dirSeq>>

\* fetchPublicRooms up to the request: runs at mount (and after leaveRoom)
FetchPublicRooms ==
  /\ roomFetches = <<>>
  /\ roomFetches' = <<[phase |-> "requested", data |-> <<>>]>>
  /\ UNCHANGED <<publicRooms, creates, roomsInbox, srvRooms, nRooms, dirSeq>>

\* fetchPublicRooms after the response: `if (data) setPublicRooms(data)`
FetchPublicRoomsOk(f) ==
  /\ roomFetches[f].phase = "responded"
  /\ publicRooms' = roomFetches[f].data
  /\ roomFetches' = [roomFetches EXCEPT ![f] = [phase |-> "done", data |-> <<>>]]
  /\ UNCHANGED <<creates, roomsInbox, srvRooms, nRooms, dirSeq>>

\* createRoom up to the request
CreateRoom ==
  /\ Len(creates) + nRooms < MaxRooms
  /\ creates' = Append(creates, [phase |-> "requested", data |-> NoRoom])
  /\ UNCHANGED <<publicRooms, roomFetches, roomsInbox, srvRooms, nRooms, dirSeq>>

\* createRoom after the response: `if (data) setPublicRooms(...)`
CreateRoomDone(k) ==
  /\ creates[k].phase = "responded"
  /\ publicRooms' = IF creates[k].data # NoRoom
                    THEN AddRoom(publicRooms, creates[k].data) ELSE publicRooms
  /\ creates' = [creates EXCEPT
                   ![k] = [phase |-> IF creates[k].data # NoRoom THEN "done" ELSE "failed",
                           data |-> NoRoom]]
  /\ UNCHANGED <<roomFetches, roomsInbox, srvRooms, nRooms, dirSeq>>

\* the callback RoomProvider gives to useRoomsSocket
OnRoomsEvent(prev, ev) ==
  IF ev.type = "room_created" THEN AddRoom(prev, ev.room)
  ELSE IF ev.type = "room_updated" THEN UpdateRoom(prev, ev.room)
  ELSE IF ev.type = "room_deleted" THEN RemoveRoom(prev, ev.room_id)
  ELSE prev

\* ws.onmessage of the directory channel
RoomsOnMessage ==
  /\ roomsInbox # <<>>
  /\ publicRooms' = OnRoomsEvent(publicRooms, Head(roomsInbox))
  /\ roomsInbox' = Tail(roomsInbox)
  /\ UNCHANGED <<creates, roomFetches, srvRooms, nRooms, dirSeq>>

\* the room directory of one client, while rooms are created, change and go
DirNext ==
  \/ FetchPublicRooms /\ UNCHANGED <<roomVars, hubVars, connVars, beatVars, restVars>>
  \/ \E f \in 1..Len(roomFetches) :
       ServerServesRooms(f) /\ UNCHANGED <<roomVars, hubVars, connVars, beatVars, restVars>>
  \/ \E f \in 1..Len(roomFetches) :
       FetchPublicRoomsOk(f) /\ UNCHANGED <<roomVars, hubVars, connVars, beatVars, restVars>>
  \/ CreateRoom /\ UNCHANGED <<roomVars, hubVars, connVars, beatVars, restVars>>
  \/ \E k \in 1..Len(creates), vis \in Visibilities :
       ServerCreatesRoom(k, vis) /\ UNCHANGED <<roomVars, hubVars, connVars, beatVars, restVars>>
  \/ \E k \in 1..Len(creates) :
       ServerRefusesRoom(k) /\ UNCHANGED <<roomVars, hubVars, connVars, beatVars, restVars>>
  \/ \E k \in 1..Len(creates) :
       CreateRoomDone(k) /\ UNCHANGED <<roomVars, hubVars, connVars, beatVars, restVars>>
  \/ \E vis \in Visibilities :
       ServerCreatesOther(vis) /\ UNCHANGED <<roomVars, hubVars, connVars, beatVars, restVars>>
  \/ \E id \in DirIds, n \in 1..MaxCount :
       ServerUpdatesRoom(id, n) /\ UNCHANGED <<roomVars, hubVars, connVars, beatVars, restVars>>
  \/ \E id \in DirIds :
       ServerDeletesRoom(id) /\ UNCHANGED <<roomVars, hubVars, connVars, beatVars, restVars>>
  \/ RoomsOnMessage /\ UNCHANGED <<roomVars, hubVars, connVars, beatVars, restVars>>


ConnNext ==
  \/ Mount /\ UNCHANGED <<roomVars, hubVars, beatVars, dirVars, restVars>>
  \/ Unmount /\ UNCHANGED <<roomVars, hubVars, beatVars, dirVars, restVars>>
  \/ RoomChange /\ UNCHANGED <<roomVars, hubVars, beatVars, dirVars, restVars>>
  \/ \E throws \in BOOLEAN : ConnectTimerFires(throws) /\ UNCHANGED <<roomVars, hubVars, beatVars, dirVars, restVars>>
  \/ \E throws \in BOOLEAN : ReconnectTimerFires(throws) /\ UNCHANGED <<roomVars, hubVars, beatVars, dirVars, restVars>>
  \/ \E s \in SocketIds : ConnectionTimeoutFires(s) /\ UNCHANGED <<roomVars, hubVars, beatVars, dirVars, restVars>>
  \/ \E s \in SocketIds : SocketOpens(s) /\ UNCHANGED <<roomVars, hubVars, beatVars, dirVars, restVars>>
  \/ \E s \in SocketIds : SocketFails(s) /\ UNCHANGED <<roomVars, hubVars, beatVars, dirVars, restVars>>
  \/ \E s \in SocketIds, code \in CloseCodes, e \in BOOLEAN :
       SocketDrops(s, code, e) /\ UNCHANGED <<roomVars, hubVars, beatVars, dirVars, restVars>>
  \/ \E s \in SocketIds, code \in {1000, 1006} :
       SocketClosed(s, code) /\ UNCHANGED <<roomVars, hubVars, beatVars, dirVars, restVars>>
  \/ \E s \in SocketIds : HeartbeatStartFires(s) /\ UNCHANGED <<roomVars, hubVars, beatVars, dirVars, restVars>>
  \/ \E e \in BOOLEAN : HeartbeatTick(e) /\ UNCHANGED <<roomVars, hubVars, beatVars, dirVars, restVars>>

----------------------------------------------------------------------------
(* Server: membership of one Room; clients: RoomContext.joinRoom / leaveRoom *)

Clients == 1..MaxClients

\* roomApi.joinRoom / roomApi.leaveRoom of one client: nothing in flight
NoCall == [op |-> "none", phase |-> "idle", error |-> FALSE]

JoinInitIn(C) ==
  /\ members = {}
  /\ capacity \in C
  /\ joinCalls = [c \in Clients |-> NoCall]
  /\ inRoom = [c \in Clients |-> FALSE]

\* the join button: `disabled={room.member_count >= room.capacity}`, on the
\* member count of the client's copy of the directory entry
JoinDisabled(seen) == seen >= capacity

\* the button is pressed: joinRoom up to the request
JoinRoom(c, seen) ==
  /\ joinCalls[c].phase = "idle"
  /\ ~JoinDisabled(seen)
  /\ joinCalls' = [joinCalls EXCEPT ![c] = [op |-> "join", phase |-> "requested", error |-> FALSE]]
  /\ UNCHANGED <<members, capacity, inRoom>>

\* POST /api/rooms/:id/join without the capacity test
ServerJoinUnchecked(c) ==
  /\ joinCalls[c].op = "join"
  /\ joinCalls[c].phase = "requested"
  /\ members' = members \cup {c}
  /\ joinCalls' = [joinCalls EXCEPT ![c].phase = "responded"]
  /\ UNCHANGED <<capacity, inRoom>>

\* POST /api/rooms/:id/join, one request processed to completion: a member stays
\* a member, a new member is added while there is room, the request is refused
\* when the room is full
ServerJoin(c) ==
  /\ joinCalls[c].op = "join"
  /\ joinCalls[c].phase = "requested"
  /\ IF c \in members \/ Cardinality(members) < capacity
     THEN /\ members' = members \cup {c}
          /\ joinCalls' = [joinCalls EXCEPT ![c].phase = "responded"]
     ELSE /\ members' = members
          /\ joinCalls' = [joinCalls EXCEPT ![c].phase = "responded", ![c].error = TRUE]
  /\ UNCHANGED <<capacity, inRoom>>

\* joinRoom after the response: `if (!error) await setCurrentRoom(roomId)`
JoinRoomDone(c) ==
  /\ joinCalls[c].op = "join"
  /\ joinCalls[c].phase = "responded"
  /\ inRoom' = [inRoom EXCEPT ![c] = IF joinCalls[c].error THEN @ ELSE TRUE]
  /\ joinCalls' = [joinCalls EXCEPT ![c] = NoCall]
  /\ UNCHANGED <<members, capacity>>

\* leaveRoom up to the request
LeaveRoom(c) ==
  /\ joinCalls[c].phase = "idle"
  /\ inRoom[c]
  /\ joinCalls' = [joinCalls EXCEPT ![c] = [op |-> "leave", phase |-> "requested", error |-> FALSE]]
  /\ UNCHANGED <<members, capacity, inRoom>>

\* DELETE /api/rooms/:id/leave
ServerLeave(c) ==
  /\ joinCalls[c].op = "leave"
  /\ joinCalls[c].phase = "requested"
  /\ members' = members \ {c}
  /\ joinCalls' = [joinCalls EXCEPT ![c].phase = "responded"]
  /\ UNCHANGED <<capacity, inRoom>>

\* leaveRoom after the response: `setCurrentRoomState(null)`
LeaveRoomDone(c) ==
  /\ joinCalls[c].op = "leave"
  /\ joinCalls[c].phase = "responded"
  /\ inRoom' = [inRoom EXCEPT ![c] = FALSE]
  /\ joinCalls' = [joinCalls EXCEPT ![c] = NoCall]
  /\ UNCHANGED <<members, capacity>>

\* any number of clients join and leave one room
JoinNext ==
  \/ \E c \in Clients, seen \in 0..MaxClients :
       JoinRoom(c, seen) /\ UNCHANGED <<roomVars, hubVars, connVars, beatVars, dirVars, gameFetchVars, switchVars, feedVars>>
  \/ \E c \in Clients : ServerJoin(c) /\ UNCHANGED <<roomVars, hubVars, connVars, beatVars, dirVars, gameFetchVars, switchVars, feedVars>>
  \/ \E c \in Clients : JoinRoomDone(c) /\ UNCHANGED <<roomVars, hubVars, connVars, beatVars, dirVars, gameFetchVars, switchVars, feedVars>>
  \/ \E c \in Clients : LeaveRoom(c) /\ UNCHANGED <<roomVars, hubVars, connVars, beatVars, dirVars, gameFetchVars, switchVars, feedVars>>
  \/ \E c \in Clients : ServerLeave(c) /\ UNCHANGED <<roomVars, hubVars, connVars, beatVars, dirVars, gameFetchVars, switchVars, feedVars>>
  \/ \E c \in Clients : LeaveRoomDone(c) /\ UNCHANGED <<roomVars, hubVars, connVars, beatVars, dirVars, gameFetchVars, switchVars, feedVars>>

----------------------------------------------------------------------------
(* Client: useGameApi initial status fetch; server: GET /api/game/status *)

\* the effect on [gameId]: when the ChatPage callback has changed currentGameId,
\* fetchInitialStatus runs and fetchGameStatus sends its request
StatusEffect ==
  statusFetches' =
    IF currentGameId' # currentGameId /\ currentGameId' # 0 /\ Len(statusFetches) < MaxGames
    THEN Append(statusFetches,
                [game |-> currentGameId', phase |-> "requested", data |-> NoGameStatus])
    ELSE statusFetches

\* GET /api/game/status/:gameId is answered from the session as it is now, or
\* with an error when the session no longer exists
ServerServesStatus(f) ==
  /\ statusFetches[f].phase = "requested"
  /\ LET g == statusFetches[f].game IN
       statusFetches' = [statusFetches EXCEPT
         ![f].phase = IF sessions[g] = NoSession THEN "failed" ELSE "responded",
         ![f].data = IF sessions[g] = NoSession THEN NoGameStatus ELSE Snapshot(g, sessions[g])]
  /\ UNCHANGED roomVars

\* fetchGameStatus after `await res.json()`:
\* `setGameState((prev) => ({ ...prev, gameStatus: status, error: null }))`
\* (the request of fetchCurrentQuestion that follows a `playing` answer sets only
\* currentQuestion)
FetchGameStatusOk(f) ==
  /\ statusFetches[f].phase = "responded"
  /\ gameStatus' = statusFetches[f].data
  /\ statusFetches' = [statusFetches EXCEPT ![f].phase = "done"]
  /\ UNCHANGED <<srvMessages, flightVars, wsInbox, msgVars, chatVars, currentQuestion,
                 timeRemaining, showHint, mergeHistVars, gameSrvVars, gameHistVars>>

\* fetchGameStatus when res.ok is false: only the error field is set
FetchGameStatusFailed(f) ==
  /\ statusFetches[f].phase = "failed"
  /\ statusFetches' = [statusFetches EXCEPT ![f].phase = "error"]
  /\ UNCHANGED roomVars

\* a client attached to the room while Game Sessions run: live status updates
\* and the status fetch its game id change triggers
StatusNext ==
  \/ \E n \in 1..MaxQuestions :
       StartQuiz(n) /\ UNCHANGED <<hubVars, connVars, beatVars, dirVars, restVars>>
  \/ GenerationDone /\ UNCHANGED <<hubVars, connVars, beatVars, dirVars, restVars>>
  \/ StartPlaying /\ UNCHANGED <<hubVars, connVars, beatVars, dirVars, restVars>>
  \/ NextQuestion /\ UNCHANGED <<hubVars, connVars, beatVars, dirVars, restVars>>
  \/ \E p \in Users, c \in BOOLEAN :
       GradeAnswer(p, c, 1) /\ UNCHANGED <<hubVars, connVars, beatVars, dirVars, restVars>>
  \/ WsOnMessage /\ StatusEffect /\ UNCHANGED <<hubVars, connVars, beatVars, dirVars, joinVars, switchVars, feedVars>>
  \/ \E f \in 1..Len(statusFetches) :
       ServerServesStatus(f) /\ UNCHANGED <<hubVars, connVars, beatVars, dirVars, joinVars, switchVars, feedVars>>
  \/ \E f \in 1..Len(statusFetches) :
       FetchGameStatusOk(f) /\ UNCHANGED <<hubVars, connVars, beatVars, dirVars, joinVars, switchVars, feedVars>>
  \/ \E f \in 1..Len(statusFetches) :
       FetchGameStatusFailed(f) /\ UNCHANGED <<hubVars, connVars, beatVars, dirVars, joinVars, switchVars, feedVars>>

----------------------------------------------------------------------------
(* Client: useRoomSocket rendered with one roomId and then with another *)

\* the effect on [fetchMessages] runs fetchMessages for the roomId of the render
FetchMessagesOf(r) ==
  /\ fetches' = Append(fetches, [phase |-> "requested", data |-> <<>>])
  /\ fetchRoom' = Append(fetchRoom, r)

\* first render with a room
RoomIdSet(r) ==
  /\ roomId = "none"
  /\ roomId' = r
  /\ FetchMessagesOf(r)
  /\ UNCHANGED <<srvMessages, posts, wsInbox, clientVars, gameSrvVars, gameHistVars, msgRoom>>

\* render with another roomId: fetchMessages runs for it, and the connect effect
\* closes the channel of the old room, whose undelivered events are dropped;
\* the message state is left as it is
RoomIdChanges(r) ==
  /\ roomId # "none"
  /\ r # roomId
  /\ Len(fetches) <= MaxFetches
  /\ roomId' = r
  /\ FetchMessagesOf(r)
  /\ wsInbox' = <<>>
  /\ UNCHANGED <<srvMessages, posts, clientVars, gameSrvVars, gameHistVars, msgRoom>>

\* GET /api/rooms/:id/messages answered with the Messages of that room
ServeRoomFetch(f) ==
  /\ fetches[f].phase = "requested"
  /\ fetches' = [fetches EXCEPT ![f] =
       [phase |-> "responded",
        data |-> ServerHistory(SelectSeq(srvMessages, LAMBDA x : msgRoom[x.id] = fetchRoom[f]))]]
  /\ UNCHANGED <<srvMessages, posts, wsInbox, clientVars, gameSrvVars, gameHistVars,
                 switchVars>>

\* a member of room r sends a message: it is stored and broadcast to the channels
\* of room r, this client's channel among them while r is the room of the hook
PostIn(r) ==
  /\ Len(srvMessages) < MaxMsgs
  /\ Len(wsInbox) < MaxInbox
  /\ LET x == Message(Len(srvMessages) + 1, "other", "none") IN
       /\ srvMessages' = Append(srvMessages, x)
       /\ msgRoom' = [msgRoom EXCEPT ![x.id] = r]
       /\ wsInbox' = Deliver(wsInbox, MessageEvent(x), r = roomId)
  /\ UNCHANGED <<flightVars, clientVars, gameSrvVars, gameHistVars, roomId, fetchRoom>>

\* one hook that shows room X and then room Y
SwitchNext ==
  \/ \E r \in Rooms :
       RoomIdSet(r) /\ UNCHANGED <<hubVars, connVars, beatVars, dirVars, joinVars, gameFetchVars, feedVars>>
  \/ \E r \in Rooms :
       RoomIdChanges(r)
         /\ UNCHANGED <<hubVars, connVars, beatVars, dirVars, joinVars, gameFetchVars, feedVars>>
  \/ \E f \in 1..Len(fetches) :
       ServeRoomFetch(f)
         /\ UNCHANGED <<hubVars, connVars, beatVars, dirVars, joinVars, gameFetchVars, feedVars>>
  \/ \E f \in 1..Len(fetches) :
       FetchMessagesOk(f) /\ UNCHANGED <<hubVars, connVars, beatVars, dirVars, restVars>>
  \/ \E r \in Rooms :
       PostIn(r) /\ UNCHANGED <<hubVars, connVars, beatVars, dirVars, joinVars, gameFetchVars, feedVars>>
  \/ WsOnMessage /\ UNCHANGED <<hubVars, connVars, beatVars, dirVars, restVars>>

----------------------------------------------------------------------------
(* Client: useRoomsSocket under the renders of RoomProvider *)

\* the effect of useRoomsSocket: `new WebSocket(wsUrl); wsRef.current = ws`
RoomsSocketEffect(ws) == [ws EXCEPT !.made = @ + 1, !.open = FALSE]

\* the socket in wsRef is connected: the directory feed delivers to it from now on
RoomsSocketOpens ==
  /\ roomsWs.made > 0
  /\ ~roomsWs.open
  /\ roomsWs' = [roomsWs EXCEPT !.open = TRUE, !.heard = TRUE]
  /\ UNCHANGED <<dirVars, dirMissed>>

\* the updater the callback passes to setPublicRooms returns a new array, so
\* RoomProvider renders again: map and filter always do, the room_created updater
\* does unless it returns prev
Rerenders(prev, ev) ==
  \/ ev.type \in {"room_updated", "room_deleted"}
  \/ ev.type = "room_created" /\ AddRoom(prev, ev.room) # prev

\* the render that follows a state change of RoomProvider: the callback given to
\* useRoomsSocket is a new function, so the effect on [onEvent] is cleaned up
\* (`ws.close()`) and runs again
RenderEffect(ws, rendered) == IF rendered THEN RoomsSocketEffect(ws) ELSE ws

\* a state change of RoomProvider and what follows: when it renders again the
\* socket is replaced, and the events the closed socket had not handed over yet
\* (rest) are not handled
Render(rendered, rest) ==
  /\ roomsWs' = RenderEffect(roomsWs, rendered)
  /\ roomsInbox' = IF rendered THEN <<>> ELSE rest
  /\ dirMissed' = IF rendered THEN dirMissed + Len(rest) ELSE dirMissed

\* RoomProvider mounts: the effects of the first render run fetchPublicRooms and
\* make the first socket; fetchPublicRooms calls setLoading(true), and the render
\* that follows replaces the socket
ProviderMount ==
  /\ roomsWs.made = 0
  /\ roomFetches' = <<[phase |-> "requested", data |-> <<>>]>>
  /\ roomsWs' = RenderEffect(RoomsSocketEffect(roomsWs), TRUE)
  /\ UNCHANGED <<publicRooms, creates, srvRooms, nRooms, dirSeq, roomsInbox, dirMissed>>

\* fetchPublicRooms after the response: `setPublicRooms(data); setLoading(false)`
ProviderFetchDone(f) ==
  /\ roomFetches[f].phase = "responded"
  /\ publicRooms' = roomFetches[f].data
  /\ roomFetches' = [roomFetches EXCEPT ![f] = [phase |-> "done", data |-> <<>>]]
  /\ Render(TRUE, roomsInbox)
  /\ UNCHANGED <<creates, srvRooms, nRooms, dirSeq>>

\* ws.onmessage of the directory channel, with the render it causes
RoomsOnMessageRendered ==
  /\ roomsWs.open
  /\ roomsInbox # <<>>
  /\ publicRooms' = OnRoomsEvent(publicRooms, Head(roomsInbox))
  /\ Render(Rerenders(publicRooms, Head(roomsInbox)), Tail(roomsInbox))
  /\ UNCHANGED <<creates, roomFetches, srvRooms, nRooms, dirSeq>>

\* another client creates a room while the directory channel this client had
\* open has been replaced by one that is still connecting: the feed has no
\* channel of this client to send room_created to
ServerCreatesUnheard(vis) ==
  /\ roomsWs.made > 0
  /\ ~roomsWs.open
  /\ nRooms < MaxRooms
  /\ dirSeq < MaxRoomEvents
  /\ srvRooms' = [srvRooms EXCEPT ![nRooms + 1] = DirRoom(nRooms + 1, 1, vis)]
  /\ nRooms' = nRooms + 1
  /\ dirSeq' = dirSeq + 1
  /\ dirMissed' = IF roomsWs.heard THEN dirMissed + 1 ELSE dirMissed
  /\ UNCHANGED <<publicRooms, creates, roomFetches, roomsInbox, roomsWs>>

\* the directory channel of a mounted RoomProvider while rooms are created and
\* joined by other clients
FeedNext ==
  \/ ProviderMount
       /\ UNCHANGED <<roomVars, hubVars, connVars, beatVars, joinVars, gameFetchVars, switchVars>>
  \/ RoomsSocketOpens
       /\ UNCHANGED <<roomVars, hubVars, connVars, beatVars, joinVars, gameFetchVars, switchVars>>
  \/ \E f \in 1..Len(roomFetches) :
       ServerServesRooms(f) /\ UNCHANGED <<roomVars, hubVars, connVars, beatVars, restVars>>
  \/ \E f \in 1..Len(roomFetches) :
       ProviderFetchDone(f)
         /\ UNCHANGED <<roomVars, hubVars, connVars, beatVars, joinVars, gameFetchVars, switchVars>>
  \/ \E vis \in Visibilities :
       roomsWs.open /\ ServerCreatesOther(vis)
         /\ UNCHANGED <<roomVars, hubVars, connVars, beatVars, restVars>>
  \/ \E id \in DirIds, n \in 1..MaxCount :
       roomsWs.open /\ ServerUpdatesRoom(id, n)
         /\ UNCHANGED <<roomVars, hubVars, connVars, beatVars, restVars>>
  \/ \E vis \in Visibilities :
       ServerCreatesUnheard(vis)
         /\ UNCHANGED <<roomVars, hubVars, connVars, beatVars, joinVars, gameFetchVars, switchVars>>
  \/ RoomsOnMessageRendered
       /\ UNCHANGED <<roomVars, hubVars, connVars, beatVars, joinVars, gameFetchVars, switchVars>>

----------------------------------------------------------------------------
(* Specifications *)

Init ==
  /\ MergeInit
  /\ GameClientInit
  /\ GameSrvInit
  /\ HubInit
  /\ unanswered = 0
  /\ DirInitIn({0})
  /\ JoinInitIn({1})
  /\ ConnInitIn({FALSE})

ConnInit ==
  /\ MergeInit
  /\ GameClientInit
  /\ GameSrvInit
  /\ HubInit
  /\ unanswered = 0
  /\ DirInitIn({0})
  /\ JoinInitIn({1})
  /\ ConnInitIn(BOOLEAN)

RoomsInit ==
  /\ MergeInit
  /\ GameClientInit
  /\ GameSrvInit
  /\ HubInit
  /\ unanswered = 0
  /\ DirInitIn({0, 1})
  /\ JoinInitIn({1})
  /\ ConnInitIn({FALSE})

JoinInit ==
  /\ MergeInit
  /\ GameClientInit
  /\ GameSrvInit
  /\ HubInit
  /\ unanswered = 0
  /\ DirInitIn({0})
  /\ JoinInitIn(1..MaxCapacity)
  /\ ConnInitIn({FALSE})

\* history fetch, send and live stream of one client of one room
MergeNext ==
  \/ FetchMessages /\ UNCHANGED <<hubVars, connVars, beatVars, dirVars, restVars>>
  \/ SendMessage /\ UNCHANGED <<hubVars, connVars, beatVars, dirVars, restVars>>
  \/ \E k \in 1..Len(posts), a \in BOOLEAN :
       ServerAcceptPost(k, a) /\ UNCHANGED <<hubVars, connVars, beatVars, dirVars, restVars>>
  \/ \E k \in 1..Len(posts) : ServerRejectPost(k) /\ UNCHANGED <<hubVars, connVars, beatVars, dirVars, restVars>>
  \/ \E a \in BOOLEAN : ServerAcceptOther(a) /\ UNCHANGED <<hubVars, connVars, beatVars, dirVars, restVars>>
  \/ \E i \in MsgIds, r \in GradingValues, a \in BOOLEAN :
       ServerAttachGrading(i, r, a) /\ UNCHANGED <<hubVars, connVars, beatVars, dirVars, restVars>>
  \/ \E f \in 1..Len(fetches) : ServerServeFetch(f) /\ UNCHANGED <<hubVars, connVars, beatVars, dirVars, restVars>>
  \/ \E f \in 1..Len(fetches) : ServerFailFetch(f) /\ UNCHANGED <<hubVars, connVars, beatVars, dirVars, restVars>>
  \/ \E f \in 1..Len(fetches) : FetchMessagesOk(f) /\ UNCHANGED <<hubVars, connVars, beatVars, dirVars, restVars>>
  \/ \E f \in 1..Len(fetches) : FetchMessagesFailed(f) /\ UNCHANGED <<hubVars, connVars, beatVars, dirVars, restVars>>
  \/ \E k \in 1..Len(posts) : SendMessageOk(k) /\ UNCHANGED <<hubVars, connVars, beatVars, dirVars, restVars>>
  \/ \E k \in 1..Len(posts) : SendMessageFailed(k) /\ UNCHANGED <<hubVars, connVars, beatVars, dirVars, restVars>>
  \/ WsOnMessage /\ UNCHANGED <<hubVars, connVars, beatVars, dirVars, restVars>>

ScoreDeltas == 1..MaxDelta

\* one Game Session after another in one room, seen by a client attached throughout
GameNext ==
  \/ \E n \in 1..MaxQuestions : StartQuiz(n) /\ UNCHANGED <<hubVars, connVars, beatVars, dirVars, restVars>>
  \/ GenerationDone /\ UNCHANGED <<hubVars, connVars, beatVars, dirVars, restVars>>
  \/ GenerationFailed /\ UNCHANGED <<hubVars, connVars, beatVars, dirVars, restVars>>
  \/ StartPlaying /\ UNCHANGED <<hubVars, connVars, beatVars, dirVars, restVars>>
  \/ NextQuestion /\ UNCHANGED <<hubVars, connVars, beatVars, dirVars, restVars>>
  \/ \E t \in timers : TimerTick(t) /\ UNCHANGED <<hubVars, connVars, beatVars, dirVars, restVars>>
  \/ \E t \in timers : CancelledTimerExpires(t) /\ UNCHANGED <<hubVars, connVars, beatVars, dirVars, restVars>>
  \/ \E p \in Users, c \in BOOLEAN, d \in ScoreDeltas :
       GradeAnswer(p, c, d) /\ UNCHANGED <<hubVars, connVars, beatVars, dirVars, restVars>>
  \/ WsOnMessage /\ UNCHANGED <<hubVars, connVars, beatVars, dirVars, restVars>>

HubNext ==
  \/ \E c \in Channels, r \in Rooms : HubRegister(c, r) /\ UNCHANGED <<roomVars, connVars, beatVars, dirVars, restVars>>
  \/ \E c \in Channels : HubUnregister(c) /\ UNCHANGED <<roomVars, connVars, beatVars, dirVars, restVars>>
  \/ \E r \in Rooms : HubBroadcast(r) /\ UNCHANGED <<roomVars, connVars, beatVars, dirVars, restVars>>
  \/ \E c \in Channels : ChannelReceive(c) /\ UNCHANGED <<roomVars, connVars, beatVars, dirVars, restVars>>
  \/ \E c \in Channels : ChannelSendFails(c) /\ UNCHANGED <<roomVars, connVars, beatVars, dirVars, restVars>>

\* the Room Hub has this client's channel registered while its socket is open
ChannelOpen == hook.wsRef # 0 /\ sockets[hook.wsRef].readyState = "OPEN"

\* the server answers a ping of the open channel with a pong
ServerPong ==
  /\ ChannelOpen
  /\ unanswered > 0
  /\ Len(wsInbox) < MaxInbox
  /\ wsInbox' = Append(wsInbox, Bare("pong"))
  /\ UNCHANGED <<srvMessages, flightVars, clientVars, gameSrvVars, gameHistVars>>

\* pings sent on the channel since its last pong, after a step of the connection
Unanswered(sent) == IF ChannelOpen' THEN unanswered + sent ELSE 0

\* the heartbeat interval fires and `ws.send(JSON.stringify({ type: "ping" }))` runs
Ping ==
  /\ ChannelOpen
  /\ unanswered < MaxPings
  /\ HeartbeatTick(FALSE)
  /\ unanswered' = Unanswered(1)

\* ws.onmessage with a pong
OnPong ==
  /\ wsInbox # <<>>
  /\ Head(wsInbox).type = "pong"
  /\ WsOnMessage
  /\ unanswered' = 0

\* one channel and its heartbeat: the server answers a ping or does not
BeatNext ==
  \/ Mount /\ unanswered' = Unanswered(0) /\ UNCHANGED <<roomVars, hubVars, dirVars, restVars>>
  \/ Unmount /\ unanswered' = Unanswered(0) /\ UNCHANGED <<roomVars, hubVars, dirVars, restVars>>
  \/ RoomChange /\ unanswered' = Unanswered(0) /\ UNCHANGED <<roomVars, hubVars, dirVars, restVars>>
  \/ ConnectTimerFires(FALSE) /\ unanswered' = Unanswered(0) /\ UNCHANGED <<roomVars, hubVars, dirVars, restVars>>
  \/ ReconnectTimerFires(FALSE) /\ unanswered' = Unanswered(0)
       /\ UNCHANGED <<roomVars, hubVars, dirVars, restVars>>
  \/ \E s \in SocketIds :
       SocketOpens(s) /\ unanswered' = Unanswered(0) /\ UNCHANGED <<roomVars, hubVars, dirVars, restVars>>
  \/ \E s \in SocketIds, code \in CloseCodes :
       SocketDrops(s, code, FALSE) /\ unanswered' = Unanswered(0)
         /\ UNCHANGED <<roomVars, hubVars, dirVars, restVars>>
  \/ \E s \in SocketIds :
       SocketClosed(s, 1000) /\ unanswered' = Unanswered(0) /\ UNCHANGED <<roomVars, hubVars, dirVars, restVars>>
  \/ \E s \in SocketIds :
       HeartbeatStartFires(s) /\ unanswered' = Unanswered(0)
         /\ UNCHANGED <<roomVars, hubVars, dirVars, restVars>>
  \/ Ping /\ UNCHANGED <<roomVars, hubVars, dirVars, restVars>>
  \/ ServerPong /\ UNCHANGED <<hubVars, connVars, beatVars, dirVars, restVars>>
  \/ OnPong /\ UNCHANGED <<hubVars, connVars, dirVars, restVars>>

\* something other than a well-formed known event arrives on the channel
ChannelCarries(data) ==
  /\ Len(fetches) > 0
  /\ Len(wsInbox) < MaxInbox
  /\ wsInbox' = Append(wsInbox, data)
  /\ UNCHANGED <<srvMessages, flightVars, clientVars, gameSrvVars, gameHistVars>>

\* the live stream of an attached client, with payloads it does not know
WireNext ==
  \/ FetchMessages /\ UNCHANGED <<hubVars, connVars, beatVars, dirVars, restVars>>
  \/ \E f \in 1..Len(fetches) : ServerServeFetch(f) /\ UNCHANGED <<hubVars, connVars, beatVars, dirVars, restVars>>
  \/ \E f \in 1..Len(fetches) : FetchMessagesOk(f) /\ UNCHANGED <<hubVars, connVars, beatVars, dirVars, restVars>>
  \/ ServerAcceptOther(TRUE) /\ UNCHANGED <<hubVars, connVars, beatVars, dirVars, restVars>>
  \/ \E i \in MsgIds, r \in GradingValues :
       ServerAttachGrading(i, r, TRUE) /\ UNCHANGED <<hubVars, connVars, beatVars, dirVars, restVars>>
  \/ ChannelCarries(Malformed) /\ UNCHANGED <<hubVars, connVars, beatVars, dirVars, restVars>>
  \/ \E t \in UnrecognizedTypes :
       ChannelCarries(Bare(t)) /\ UNCHANGED <<hubVars, connVars, beatVars, dirVars, restVars>>
  \/ WsOnMessage /\ UNCHANGED <<hubVars, connVars, beatVars, dirVars, restVars>>

\* the Game Sessions of the room that have been superseded by a newer one
Superseded == {g \in Created : g < roomGame}

\* an event of a superseded session reaches the channel after the session that
\* superseded it was announced: a status update a late task of session g emits
LateStatusEvent(g, st) ==
  /\ g \in Superseded
  /\ GameBroadcast(<<StatusEvent(GameStatus(g, st, 0, 1, NoScores))>>)
  /\ UNCHANGED <<srvMessages, flightVars, clientVars, gameSrvVars, gameHistVars>>

\* countdown values of a tick that was sent for the question that has ended
LateTicks == {0, QuestionBudget - 1}

\* a countdown event of the ended question reaches the channel after the
\* `finished` update of its session
LateTimerEvent(v) ==
  /\ roomGame # 0
  /\ sessions[roomGame].status = "finished"
  /\ GameBroadcast(<<TimerEvent(v)>>)
  /\ UNCHANGED <<srvMessages, flightVars, clientVars, gameSrvVars, gameHistVars>>

\* a Game Session played to its end, with a countdown event still in flight
FinishNext ==
  \/ \E n \in 1..MaxQuestions :
       StartQuiz(n) /\ UNCHANGED <<hubVars, connVars, beatVars, dirVars, restVars>>
  \/ GenerationDone /\ UNCHANGED <<hubVars, connVars, beatVars, dirVars, restVars>>
  \/ StartPlaying /\ UNCHANGED <<hubVars, connVars, beatVars, dirVars, restVars>>
  \/ NextQuestion /\ UNCHANGED <<hubVars, connVars, beatVars, dirVars, restVars>>
  \/ \E t \in timers : TimerTick(t) /\ UNCHANGED <<hubVars, connVars, beatVars, dirVars, restVars>>
  \/ \E p \in Users :
       GradeAnswer(p, TRUE, 1) /\ UNCHANGED <<hubVars, connVars, beatVars, dirVars, restVars>>
  \/ \E v \in LateTicks :
       LateTimerEvent(v) /\ UNCHANGED <<hubVars, connVars, beatVars, dirVars, restVars>>
  \/ WsOnMessage /\ UNCHANGED <<hubVars, connVars, beatVars, dirVars, restVars>>

\* one Game Session after another in one room, with late events of the old ones
StaleNext ==
  \/ \E n \in 1..MaxQuestions : StartQuiz(n) /\ UNCHANGED <<hubVars, connVars, beatVars, dirVars, restVars>>
  \/ GenerationDone /\ UNCHANGED <<hubVars, connVars, beatVars, dirVars, restVars>>
  \/ StartPlaying /\ UNCHANGED <<hubVars, connVars, beatVars, dirVars, restVars>>
  \/ \E t \in timers : TimerTick(t) /\ UNCHANGED <<hubVars, connVars, beatVars, dirVars, restVars>>
  \/ \E g \in GameIds, st \in {"ready", "finished"} :
       LateStatusEvent(g, st) /\ UNCHANGED <<hubVars, connVars, beatVars, dirVars, restVars>>
  \/ WsOnMessage /\ UNCHANGED <<hubVars, connVars, beatVars, dirVars, restVars>>

\* a client that attaches to a room, loses its connection and reconnects, while
\* other members of the room send messages; the hub does not buffer for a client
\* whose channel is not open
SyncNext ==
  \/ Mount /\ FetchMessages /\ UNCHANGED <<hubVars, beatVars, dirVars, restVars>>
  \/ ConnectTimerFires(FALSE) /\ UNCHANGED <<roomVars, hubVars, beatVars, dirVars, restVars>>
  \/ ReconnectTimerFires(FALSE) /\ UNCHANGED <<roomVars, hubVars, beatVars, dirVars, restVars>>
  \/ \E s \in SocketIds : SocketOpens(s) /\ UNCHANGED <<roomVars, hubVars, beatVars, dirVars, restVars>>
  \/ \E s \in SocketIds : SocketDrops(s, 1006, FALSE) /\ UNCHANGED <<roomVars, hubVars, beatVars, dirVars, restVars>>
  \/ \E s \in SocketIds : HeartbeatStartFires(s) /\ UNCHANGED <<roomVars, hubVars, beatVars, dirVars, restVars>>
  \/ \E f \in 1..Len(fetches) : ServerServeFetch(f) /\ UNCHANGED <<hubVars, connVars, beatVars, dirVars, restVars>>
  \/ \E f \in 1..Len(fetches) : FetchMessagesOk(f) /\ UNCHANGED <<hubVars, connVars, beatVars, dirVars, restVars>>
  \/ ServerAcceptOther(ChannelOpen) /\ UNCHANGED <<hubVars, connVars, beatVars, dirVars, restVars>>
  \/ WsOnMessage /\ UNCHANGED <<hubVars, connVars, beatVars, dirVars, restVars>>

\* the answer the room has stored as Message nAnswers + 1 is graded: the grading
\* event carries the id of that Message
GradePosted(correct) ==
  /\ Len(srvMessages) > nAnswers
  /\ GradeAnswer(srvMessages[nAnswers + 1].user_id, correct, 1)

\* a client that answers the question being played: its POST, the broadcast of
\* its message, the grading of the answer and the status updates of the game
AnswerNext ==
  \/ FetchMessages /\ UNCHANGED <<hubVars, connVars, beatVars, dirVars, restVars>>
  \/ \E f \in 1..Len(fetches) :
       ServerServeFetch(f) /\ UNCHANGED <<hubVars, connVars, beatVars, dirVars, restVars>>
  \/ \E f \in 1..Len(fetches) :
       FetchMessagesOk(f) /\ UNCHANGED <<hubVars, connVars, beatVars, dirVars, restVars>>
  \/ StartQuiz(1) /\ UNCHANGED <<hubVars, connVars, beatVars, dirVars, restVars>>
  \/ GenerationDone /\ UNCHANGED <<hubVars, connVars, beatVars, dirVars, restVars>>
  \/ StartPlaying /\ UNCHANGED <<hubVars, connVars, beatVars, dirVars, restVars>>
  \/ SendMessage /\ UNCHANGED <<hubVars, connVars, beatVars, dirVars, restVars>>
  \/ \E k \in 1..Len(posts) :
       ServerAcceptPost(k, TRUE) /\ UNCHANGED <<hubVars, connVars, beatVars, dirVars, restVars>>
  \/ \E c \in BOOLEAN : GradePosted(c) /\ UNCHANGED <<hubVars, connVars, beatVars, dirVars, restVars>>
  \/ \E k \in 1..Len(posts) :
       SendMessageOk(k) /\ UNCHANGED <<hubVars, connVars, beatVars, dirVars, restVars>>
  \/ WsOnMessage /\ UNCHANGED <<hubVars, connVars, beatVars, dirVars, restVars>>

SpecMerge == Init /\ [][MergeNext]_vars

SpecGame == Init /\ [][GameNext]_vars

SpecHub == Init /\ [][HubNext]_vars

SpecConn == ConnInit /\ [][ConnNext]_vars

SpecSync == Init /\ [][SyncNext]_vars

SpecBeat == Init /\ [][BeatNext]_vars

SpecWire == Init /\ [][WireNext]_vars

SpecRooms == RoomsInit /\ [][DirNext]_vars

SpecStale == Init /\ [][StaleNext]_vars

SpecJoin == JoinInit /\ [][JoinNext]_vars

SpecAnswer == Init /\ [][AnswerNext]_vars

SpecStatus == Init /\ [][StatusNext]_vars

SpecFinish == Init /\ [][FinishNext]_vars

SpecSwitch == Init /\ [][SwitchNext]_vars

SpecFeed == RoomsInit /\ [][FeedNext]_vars

Next == MergeNext \/ GameNext \/ HubNext \/ ConnNext \/ SyncNext \/ BeatNext \/ WireNext \/ DirNext \/ StaleNext \/ JoinNext
          \/ AnswerNext \/ StatusNext \/ FinishNext \/ SwitchNext
          \/ FeedNext

Spec == ConnInit /\ [][Next]_vars

----------------------------------------------------------------------------
(* Properties of the message collection (SpecMerge) *)

\* every request is answered and handled, and the live stream is drained
Quiescent ==
  /\ wsInbox = <<>>
  /\ \A f \in 1..Len(fetches) : fetches[f].phase \in {"done", "error"}
  /\ \A k \in 1..Len(posts) : posts[k].phase \in {"done", "error"}

\* C1: idempotent merge.  Whatever history items, live `message` events and send
\* responses the client has handled, once nothing is left to handle its collection
\* holds every Message id it has seen exactly once, and the entry it holds for the
\* id is the first one it saw.
C1_IdempotentMerge ==
  Quiescent =>
    \A id \in MsgIds :
      firstSeen[id] # NoMessage =>
        /\ Count(messages, id) = 1
        /\ Entry(messages, id) = firstSeen[id]

\* C2: a message the client sent, whose POST response and live broadcast have both
\* been handled and with a history fetch handled as well, is in the collection
\* exactly once, in every interleaving of the three.
C2_SentExactlyOnce ==
  \A k \in 1..Len(posts) :
    ( /\ Quiescent
      /\ posts[k].phase = "done"
      /\ posts[k].sent.id \in liveSeen
      /\ \E f \in 1..Len(fetches) : fetches[f].phase = "done" )
    => Count(messages, posts[k].sent.id) = 1

----------------------------------------------------------------------------
(* Properties of the Room Hub (SpecHub) *)

\* what channel c has observed or will observe, oldest first
Observed(c) == chanLog[c] \o chanQueue[c]

\* the events the hub accepted for room r after its n-th, in acceptance order
AcceptedSince(r, n) == [i \in 1..(hubSeq[r] - n) |-> HubEvent(r, n + i)]

\* C3: per-room ordering.  A channel that has stayed registered to a room observes
\* the events the hub accepted for the room since it registered in the order the
\* hub accepted them: if A was accepted before B, A comes before B.  What a channel
\* observed before it left is in acceptance order too.
C3_PerRoomOrdering ==
  /\ \A r \in Rooms : \A c \in hubRooms[r] : Observed(c) = AcceptedSince(r, chanRegAt[c])
  /\ \A c \in Channels :
       \A i, j \in 1..Len(Observed(c)) : i < j => Observed(c)[i].n < Observed(c)[j].n

\* a channel registered throughout has observed two events of its room, A then B
C3_Witness ==
  \E r \in Rooms : \E c \in hubRooms[r] :
    /\ Len(chanLog[c]) >= 2
    /\ chanLog[c][1] = HubEvent(r, chanRegAt[c] + 1)
    /\ chanLog[c][2] = HubEvent(r, chanRegAt[c] + 2)

\* C4: isolation.  Every event a channel observes, or has queued, was broadcast for
\* the room the channel is registered to: an event for room X never reaches a
\* channel registered only to room Y.
C4_Isolation ==
  \A c \in Channels :
    \A i \in 1..Len(Observed(c)) : Observed(c)[i].room = chanRoom[c]

\* two rooms with a channel each, both with broadcasts observed
C4_Witness ==
  \E c \in hubRooms["X"], d \in hubRooms["Y"] :
    /\ chanLog[c] # <<>>
    /\ chanLog[d] # <<>>
    /\ chanRegAt[c] = 0
    /\ chanRegAt[d] = 0

----------------------------------------------------------------------------
(* Properties of the Game Session and of its display (SpecGame) *)

AllowedTransitions ==
  {<<"generating", "ready">>, <<"ready", "playing">>, <<"playing", "waiting_next">>,
   <<"playing", "finished">>, <<"waiting_next", "playing">>, <<"waiting_next", "finished">>}

\* session g keeps its status, moves along an allowed edge, is created, or is destroyed
StatusStep(g) ==
  LET a == sessions[g].status
      b == sessions'[g].status IN
    \/ a = b
    \/ <<a, b>> \in AllowedTransitions
    \/ a = "none" /\ b = "generating" /\ g = nGames + 1 /\ nGames' = g /\ roomGame' = g
    \/ a # "none" /\ b = "none" /\ roomGame = g /\ roomGame' # g

SessionStep ==
  /\ \A g \in GameIds : StatusStep(g)
  /\ \A g \in GameIds :
       sessions[g].status = "finished" => sessions'[g].status \in {"finished", "none"}
  /\ roomGame' # roomGame => (roomGame' = 0 \/ roomGame' > nGames)

\* C5: the status of a Game Session changes only along generating->ready,
\* ready->playing, playing->waiting_next, playing->finished, waiting_next->playing and
\* waiting_next->finished; a finished session never gets another status (it can only
\* be superseded), and a game start makes a session under an id never used before,
\* starting at generating, while a superseded session is never the room's again.
C5_StatusTransitions == [][SessionStep]_vars

\* a second session is being generated while the client still shows the first,
\* finished one
C5_Witness ==
  /\ roomGame = 2
  /\ sessions[2].status = "generating"
  /\ sessions[1].status = "none"
  /\ gameStatus.game_id = 1
  /\ gameStatus.status = "finished"

\* the room's session is in `playing`
Playing == roomGame # 0 /\ sessions[roomGame].status = "playing"

\* no question has left `playing` twice
ResolvedOnce ==
  \A i, j \in 1..Len(resolutions) : i < j => resolutions[i] # resolutions[j]

\* one second passes on the question timer
Tick == elapsed' = elapsed + 1

\* the client handles a countdown event
HandlesTimer == wsInbox # <<>> /\ Head(wsInbox).type = "game_timer" /\ wsInbox' = Tail(wsInbox)

\* the session leaves `playing`, resolving the question it was playing
Resolves ==
  /\ sessions'[roomGame].status =
       (IF sessions[roomGame].qidx + 1 < sessions[roomGame].total
        THEN "waiting_next" ELSE "finished")
  /\ resolutions' = Append(resolutions, [game |-> roomGame, q |-> sessions[roomGame].qidx])

TimerStep ==
  /\ Tick => Playing
  /\ (Tick /\ elapsed' < QuestionBudget) => UNCHANGED <<sessions, resolutions>>
  /\ (Tick /\ elapsed' = QuestionBudget) => Resolves
  /\ HandlesTimer => timeRemaining' = timeRemaining - 1

\* C6: timer correctness.  While a question is played with no correct answer, each
\* tick broadcasts a countdown value one below the previous one (19, 18, ... from
\* the budget of 20), the session stays in `playing` until the tick that brings the
\* elapsed time to 20, and that tick moves it, once, to waiting_next, or to finished
\* on the last question; the client's timeRemaining goes down by exactly 1 with
\* every countdown event it handles.
C6_TimerCorrectness ==
  /\ [](/\ elapsed \in 0..QuestionBudget
        /\ Playing => elapsed < QuestionBudget
        /\ \A i \in 1..Len(tickLog) : tickLog[i] = QuestionBudget - i
        /\ Len(tickLog) = elapsed
        /\ ResolvedOnce)
  /\ [][TimerStep]_vars

\* the deadline of the first of two questions passed and the client has shown the
\* whole countdown
C6_Witness ==
  /\ roomGame # 0
  /\ sessions[roomGame].status = "waiting_next"
  /\ elapsed = QuestionBudget
  /\ Len(tickLog) = QuestionBudget
  /\ resolutions = <<[game |-> roomGame, q |-> 0]>>
  /\ wsInbox = <<>>
  /\ timeRemaining = 0

\* a participant is graded correct
CorrectGrade ==
  /\ Playing
  /\ nAnswers' = nAnswers + 1
  /\ sessions'[roomGame].scores # sessions[roomGame].scores

\* a cancelled timer task reaches its natural expiry
StaleExpiry == \E t \in timers : t.cancelled /\ timers' = timers \ {t}

EarlyStep ==
  /\ CorrectGrade =>
       /\ elapsed < QuestionBudget
       /\ Resolves
       /\ \A t \in timers' : t.cancelled
  /\ (tickLog' # tickLog /\ tickLog' # <<>>) => Playing
  /\ StaleExpiry => UNCHANGED <<sessions, resolutions, tickLog, wsInbox>>

\* C7: early resolution.  A correct grading during `playing` at elapsed time T < 20
\* cancels the question timer and moves the session out of `playing` in the same
\* step; afterwards no timer task can tick for that question (every task that is
\* not cancelled belongs to the question being played), no countdown is broadcast
\* outside `playing`, and the natural expiry of a cancelled task changes neither
\* the session nor the countdown: no question is resolved twice.
C7_EarlyResolution ==
  /\ [](/\ \A t \in timers :
             ~t.cancelled =>
               Playing /\ t.game = roomGame /\ t.q = sessions[roomGame].qidx
        /\ ResolvedOnce)
  /\ [][EarlyStep]_vars

\* a question was resolved by a correct answer before its deadline, and the
\* cancelled timer task has since expired
C7_Witness ==
  /\ roomGame # 0
  /\ sessions[roomGame].status = "waiting_next"
  /\ \E u \in Users : sessions[roomGame].scores[u] > 0
  /\ resolutions = <<[game |-> roomGame, q |-> 0]>>
  /\ timers = {}

\* the badges are in descending order of score and show every participant once
Ranked(badges, scores) ==
  /\ Len(badges) = Cardinality(Users)
  /\ \A u \in Users : \E i \in 1..Len(badges) :
       badges[i] = [userId |-> u, score |-> scores[u]]
  /\ \A i, j \in 1..Len(badges) : i < j => badges[i].score >= badges[j].score

\* the score of participant u in session g stays, or grows by the delta of a correct
\* answer of u while no other score changes
ScoreStep(g, u) ==
  LET before == sessions[g].scores[u]
      after == sessions'[g].scores[u] IN
    \/ sessions[g].status = "none"
    \/ sessions'[g].status = "none"
    \/ after = before
    \/ /\ after > before
       /\ after - before \in ScoreDeltas
       /\ g = roomGame
       /\ CorrectGrade
       /\ \A v \in Users \ {u} : sessions'[g].scores[v] = sessions[g].scores[v]

----------------------------------------------------------------------------
(* Properties of the reconnect policy (SpecConn) *)

\* the delays of the reconnect timers that fired since the last successful open
Fired == connHist.fired

\* a connection was established in this step
Opened ==
  \E s \in SocketIds : sockets[s].readyState = "CONNECTING" /\ sockets'[s].readyState = "OPEN"

BackoffStep == connHist'.lastDelay >= connHist.lastDelay \/ Opened

\* C9: backoff bounds.  With no successful open in between, the delays of
\* consecutive reconnects never decrease and never exceed the ceiling, and once
\* the maximum number of attempts has been used no reconnect timer is pending:
\* at most that many reconnects are made.
C9_BackoffBounds ==
  /\ [](/\ connHist.lastDelay <= maxReconnectDelay
        /\ hook.reconnectTimeout <= maxReconnectDelay
        /\ \A i \in 1..Len(Fired) : Fired[i] <= maxReconnectDelay
        /\ \A i, j \in 1..Len(Fired) : i < j => Fired[i] <= Fired[j]
        /\ (hook.reconnectTimeout # NoTimeout /\ Fired # <<>>) =>
             Fired[Len(Fired)] <= hook.reconnectTimeout
        /\ Len(Fired) <= maxReconnectAttempts
        /\ hook.reconnectAttempts <= maxReconnectAttempts
        /\ hook.reconnectTimeout # NoTimeout =>
             hook.reconnectAttempts < maxReconnectAttempts)
  /\ [][BackoffStep]_vars

\* four reconnects failed one after the other and the fifth waits at the ceiling
C9_Witness ==
  /\ Len(Fired) = 4
  /\ Fired[1] < Fired[4]
  /\ hook.reconnectTimeout = maxReconnectDelay
  /\ ~hook.connected

\* the delays of the reference policy, in milliseconds
ReferenceDelays == <<2000, 4000, 8000, 16000, 30000>>

\* C10: with the reference policy the delays of consecutive reconnects are exactly
\* 2 s, 4 s, 8 s, 16 s and 30 s; after 5 reconnect attempts without a successful
\* open the client has given up: once its last socket is no longer connecting it
\* has no reconnect timer pending and reports connected = false.
C10_ReferencePolicy ==
  /\ Len(Fired) = hook.reconnectAttempts
  /\ Len(Fired) <= Len(ReferenceDelays)
  /\ Fired = SubSeq(ReferenceDelays, 1, Len(Fired))
  /\ hook.reconnectTimeout # NoTimeout =>
       hook.reconnectTimeout = ReferenceDelays[hook.reconnectAttempts + 1]
  /\ (hook.reconnectAttempts = 5 /\ ~Live(Conn)) =>
       (hook.reconnectTimeout = NoTimeout /\ ~hook.connected)

\* all five reconnects were made and failed: the mounted hook has given up
C10_Witness ==
  /\ Fired = ReferenceDelays
  /\ hook.reconnectAttempts = 5
  /\ hook.mounted
  /\ hook.wsRef = 0
  /\ ~hook.connectTimer
  /\ hook.reconnectTimeout = NoTimeout
  /\ ~hook.connected

----------------------------------------------------------------------------
(* Properties of the connection life cycle (SpecConn) *)

\* the current socket is closed from the far side with a normal code
CleanClose ==
  \E s \in SocketIds, code \in {1000, 1001} : hook.wsRef = s /\ SocketDrops(s, code, FALSE)

\* the caller closes the hook: the cleanup of the connect effect runs
CallerClose == Unmount \/ RoomChange

\* a connection ended abnormally: it could not be made (constructor threw, no
\* answer in 5 s, failure) or it ended with an error or an abnormal close code
AbnormalEnd ==
  \/ ConnectTimerFires(TRUE)
  \/ ReconnectTimerFires(TRUE)
  \/ \E s \in SocketIds : ConnectionTimeoutFires(s) \/ SocketFails(s)
  \/ \E s \in SocketIds, e \in BOOLEAN : SocketDrops(s, 1006, e) \/ SocketClosed(s, 1006)

\* a reconnect timer is scheduled in this step
Armed ==
  /\ hook'.reconnectTimeout # NoTimeout
  /\ hook.reconnectTimeout = NoTimeout \/ connHist'.fired # connHist.fired

CleanCloseStep ==
  /\ (CleanClose \/ CallerClose) => hook'.reconnectTimeout = NoTimeout
  /\ Armed => AbnormalEnd

Attempt == \E s \in SocketIds : sockets[s].readyState = "NONE" /\ sockets'[s].readyState # "NONE"

\* the connectTimer of the running effect fires and connects to the effect's room
EffectAttempt == hook.mounted /\ hook.connectTimer /\ ~hook'.connectTimer

\* a reconnect timer fires and connects through connectWebSocketRef.current, the
\* connectWebSocket of the last render; when the hook is unmounted that is the
\* room the caller has left
ReconnectAttempt == hook.mounted /\ hook.reconnectTimeout # NoTimeout /\ Fired' # Fired

\* after the cleanup the reconnect timer is cancelled, and the only timer left is
\* the connectTimer of the effect of the new room, if there is a new room
CancelStep ==
  /\ CallerClose => (hook'.reconnectTimeout = NoTimeout /\ hook'.connectTimer = hook'.mounted)
  /\ Attempt => (EffectAttempt \/ ReconnectAttempt)
  /\ ~hook.mounted => (hook'.reconnectTimeout = NoTimeout /\ Fired' = Fired)

\* C12: when the caller closes the hook (unmount or room change) the pending
\* reconnect timer is cancelled, and from then on no connection attempt for the
\* old room is started, whatever callbacks of old sockets fire: an unmounted hook
\* has no timer and no connecting or open socket and starts no attempt, and after
\* a room change every attempt is started by a timer that was set after the change.
C12_CloseCancelsReconnect ==
  /\ [](~hook.mounted =>
         /\ hook.reconnectTimeout = NoTimeout
         /\ ~hook.connectTimer
         /\ \A s \in SocketIds : sockets[s].readyState \notin {"CONNECTING", "OPEN"})
  /\ [][CancelStep]_vars

\* the hook was unmounted while its first reconnect timer was waiting (the timer
\* was set and never fired), and a socket it closed has its callbacks still to come
C12_Witness ==
  /\ ~hook.mounted
  /\ hook.reconnectAttempts = 0
  /\ connHist.lastDelay = ReconnectDelay(0)
  /\ hook.reconnectTimeout = NoTimeout
  /\ \E s \in SocketIds : sockets[s].readyState = "CLOSING"

\* the sockets of the hook that are connecting or open
LiveSockets == {s \in SocketIds : sockets[s].readyState \in {"CONNECTING", "OPEN"}}

\* an attempt is started only when no socket is connecting or open
SingleStep == Attempt => (LiveSockets = {} /\ Cardinality(LiveSockets') = 1)

\* C14: a client has at most one Event Channel in the connecting or open state:
\* the only socket that can be CONNECTING or OPEN is the hook's current one, and a
\* connection attempt is started only when there is none, whatever the order of
\* remounts, room changes, connection timeouts and timers.
C14_SingleChannel ==
  /\ [](/\ Cardinality(LiveSockets) <= 1
        /\ LiveSockets \subseteq {hook.wsRef})
  /\ [][SingleStep]_vars

\* after a room change the socket of the old room is still closing while the
\* socket of the new room is open
C14_Witness ==
  /\ ChannelOpen
  /\ \E s \in SocketIds : s # hook.wsRef /\ sockets[s].readyState = "CLOSING" /\ sockets[s].opened

\* C15: the heartbeat stops with its channel.  Whenever the hook's current
\* channel is not open (its close has been handled, or the hook is unmounted, or
\* no channel was opened yet) no heartbeat interval is scheduled, and at no time
\* is more than one heartbeat interval scheduled.
C15_HeartbeatStops ==
  /\ hook.intervals <= 1
  /\ hook.heartbeatInterval <=> hook.intervals = 1
  /\ ~ChannelOpen => hook.intervals = 0
  /\ ~hook.mounted => hook.intervals = 0

\* a channel was opened and its close has been handled: the hook waits to
\* reconnect with no heartbeat interval, and the 1 s timer that would start the
\* heartbeat of the closed channel is still to fire
C15_Witness ==
  /\ hook.mounted
  /\ hook.wsRef = 0
  /\ hook.reconnectTimeout # NoTimeout
  /\ hook.intervals = 0
  /\ \E s \in SocketIds :
       sockets[s].opened /\ sockets[s].readyState = "CLOSED" /\ sockets[s].heartbeatStart

----------------------------------------------------------------------------
(* Properties of the room directory (SpecRooms) *)

\* number of entries of the directory with room id id
Listings(id) == Cardinality({i \in 1..Len(publicRooms) : publicRooms[i].id = id})

\* C18: directory de-duplication.  After any interleaving of createRoom
\* responses, directory fetches and room_created / room_updated / room_deleted
\* events, publicRooms holds each room id at most once.
C18_DirectoryDedup == \A id \in DirIds : Listings(id) <= 1

\* a room this client created has reached it twice, by the createRoom response
\* and by the room_created broadcast, and is listed once
C18_Witness ==
  /\ \E k \in 1..Len(creates) : creates[k].phase = "done"
  /\ dirSeq = 1
  /\ roomsInbox = <<>>
  /\ roomFetches = <<>>
  /\ Len(publicRooms) = 1

\* ws.onmessage of the directory channel handles a room_updated event
HandlesUpdate ==
  /\ roomsInbox # <<>>
  /\ Head(roomsInbox).type = "room_updated"
  /\ RoomsOnMessage

UpdateStep ==
  HandlesUpdate =>
    LET updated == Head(roomsInbox).room IN
      /\ Len(publicRooms') = Len(publicRooms)
      /\ \A i \in 1..Len(publicRooms) :
           /\ publicRooms'[i].id = publicRooms[i].id
           /\ publicRooms'[i].visibility = publicRooms[i].visibility
           /\ publicRooms'[i].member_count =
                IF publicRooms[i].id = updated.id THEN updated.member_count
                ELSE publicRooms[i].member_count
      /\ ~Some(publicRooms, updated.id) => publicRooms' = publicRooms

\* C19: a room_updated event for room X changes only the member count of the
\* entry of X: the other entries, the other fields of the entry, the order and
\* the length of publicRooms stay as they were, and an update for a room that is
\* not listed changes nothing.
C19_UpdateFrame == [][UpdateStep]_vars

\* two rooms are listed, both events of the run (a creation and an update) have
\* been handled, and one room has the member count of the update
C19_Witness ==
  /\ dirSeq = 2
  /\ roomsInbox = <<>>
  /\ Len(publicRooms) = 2
  /\ \E i, j \in 1..2 :
       /\ publicRooms[i].member_count = 2
       /\ publicRooms[j].member_count = 1

----------------------------------------------------------------------------
(* Properties of the client under late game events (SpecStale) *)

\* ws.onmessage handles a game event of a session older than the one the client
\* already knows to be the room's current session
HandlesStale ==
  /\ wsInbox # <<>>
  /\ Head(wsInbox).type = "game_status_update"
  /\ Head(wsInbox).gameStatus.game_id \in Superseded
  /\ Head(wsInbox).gameStatus.game_id < currentGameId
  /\ WsOnMessage

StaleStep ==
  HandlesStale => UNCHANGED <<gameStatus, currentQuestion, timeRemaining, currentGameId>>

\* C20: a game event that refers to a superseded Game Session is discarded by the
\* client: handling it leaves gameStatus, currentQuestion, timeRemaining and the
\* current game id as they were.
C20_StaleDiscarded == [][StaleStep]_vars

----------------------------------------------------------------------------
(* Properties of the heartbeat (SpecBeat) *)

\* C16: liveness check.  While the channel is open the heartbeat sends pings, and
\* when three consecutive pings have had no pong the channel is force-closed: a
\* fourth ping in a row is never sent on an open channel.
C16_ThreeMissedPongs == ChannelOpen => unanswered <= 3

----------------------------------------------------------------------------
(* Properties of ws.onmessage (SpecWire) *)

\* ws.onmessage handles a payload that is malformed or has an unrecognized type
HandlesUnknown ==
  /\ wsInbox # <<>>
  /\ Head(wsInbox) = Malformed \/ Head(wsInbox).type \in UnrecognizedTypes
  /\ WsOnMessage

DropStep == HandlesUnknown => UNCHANGED <<clientVars, connVars>>

\* C17: a payload that is malformed, or whose type is not a recognized event type
\* (a liveness ping included), is dropped: handling it leaves the message
\* collection, the game state and the connection state as they were.
C17_UnknownDropped == [][DropStep]_vars

----------------------------------------------------------------------------
(* Properties of the reconnecting client (SpecSync) *)

\* a connection is established after at least one reconnect timer fired
Reconnected == Opened /\ Fired # <<>>

\* a message the server has accepted that the client does not hold
Missing == \E i \in 1..Len(srvMessages) : ~Exists(messagesRef, srvMessages[i].id)

\* fetchMessages is called in this step
FetchIssued == Len(fetches') > Len(fetches)

ReconnectStep == (Reconnected /\ Missing) => FetchIssued

\* C13: after every successful reconnect the client repeats the history fetch, so
\* that a message accepted while it was disconnected becomes present: the step
\* that re-establishes the connection while an accepted message is missing
\* calls fetchMessages.
C13_RefetchOnReconnect == [][ReconnectStep]_vars

----------------------------------------------------------------------------
(* Properties of the room membership (SpecJoin) *)

\* the server answers the join request of client c in this step
AnswersJoin(c) ==
  /\ joinCalls[c].op = "join"
  /\ joinCalls[c].phase = "requested"
  /\ joinCalls'[c].phase = "responded"

\* a join that would take the room past its capacity is refused, and a refused
\* join leaves the membership as it was
RefuseStep ==
  \A c \in Clients :
    AnswersJoin(c) =>
      /\ (c \notin members /\ Cardinality(members) >= capacity) => joinCalls'[c].error
      /\ joinCalls'[c].error => members' = members

\* C21: after any interleaving of join and leave requests of any number of
\* clients the member count of the room never exceeds its capacity; a join that
\* would exceed it is rejected and leaves the membership unchanged
C21_CapacityRespected ==
  /\ [](Cardinality(members) <= capacity)
  /\ [][RefuseStep]_vars

\* the room is full, a client that pressed the button on a stale member count
\* has been refused and the join of another client has just been accepted
C21_Witness ==
  /\ Cardinality(members) = capacity
  /\ \E c \in Clients : c \notin members /\ joinCalls[c].phase = "responded" /\ joinCalls[c].error
  /\ \E c \in Clients : c \in members /\ ~inRoom[c] /\ joinCalls[c].phase = "responded"

----------------------------------------------------------------------------
(* Properties of the history merge (SpecMerge) *)

\* fetchMessages completes in this step
FetchCompletes ==
  \E f \in 1..Len(fetches) : fetches[f].phase = "responded" /\ fetches'[f].phase = "done"

\* every message the collection held is still in it
KeepsAll == \A id \in MsgIds : Exists(messages, id) => Exists(messages', id)

KeepStep == FetchCompletes => KeepsAll

\* C22: no received message is lost by the history merge: when fetchMessages
\* completes, every message that was already in the local collection (from the
\* live stream or from a send response) is still in it, whether or not the
\* fetched snapshot holds it
C22_NoMessageLost == [][KeepStep]_vars

----------------------------------------------------------------------------
(* Properties of the grading entries (SpecAnswer) *)

\* a grading entry that holds a result keeps it while the game is the same
GradedStep ==
  \A id \in DOMAIN gradingResults :
    (gradingResults[id] = "result" /\ currentGameId' = currentGameId)
      => gradingResults'[id] = "result"

\* C23: once the client has received the game_grading_result of message m, its
\* grading entry for m is that result in every later state of the same game: it
\* never goes back to loading and is never removed, in any ordering of the
\* grading event, the sendMessage response and later status updates
C23_GradingKept == [][GradedStep]_vars

\* C25: whenever the client's known game status is waiting_next or finished, no
\* grading entry is in the loading state: the status update to either status
\* removes every loading entry, and none is added afterwards for the resolved
\* question
C25_NoLoadingAfterResolve ==
  gameStatus.status \in {"waiting_next", "finished"}
    => \A id \in DOMAIN gradingResults : gradingResults[id] # "loading"

----------------------------------------------------------------------------
(* Properties of the client's copy of the game status (SpecStatus) *)

\* the statuses a session can have once it has had status s
LaterThan(s) ==
  CASE s = "generating" -> {"generating", "ready", "playing", "waiting_next", "finished"}
    [] s = "ready" -> {"ready", "playing", "waiting_next", "finished"}
    [] s \in {"playing", "waiting_next"} -> {"playing", "waiting_next", "finished"}
    [] OTHER -> {s}

ForwardStep ==
  (gameStatus.game_id # 0 /\ gameStatus'.game_id = gameStatus.game_id)
    => gameStatus'.status \in LaterThan(gameStatus.status)

\* C24: the client's copy of the game status never moves backwards: after it has
\* applied status S of a game, every value it applies later for the same game
\* (live update, status fetch on a game id change, mid-join fetch) is S or a
\* lifecycle successor of S
C24_StatusForward == [][ForwardStep]_vars

----------------------------------------------------------------------------
(* Properties of the displayed time after the end of a game (SpecFinish) *)

\* ws.onmessage handles a game_question event in this step
HandlesQuestion ==
  wsInbox # <<>> /\ Head(wsInbox).type = "game_question" /\ wsInbox' = Tail(wsInbox)

\* applying `finished` sets the displayed time to the budget, and while the
\* status is `finished` only a game_question event changes it
HoldStep ==
  /\ (gameStatus'.status = "finished" /\ gameStatus' # gameStatus)
       => timeRemaining' = QuestionBudget
  /\ (gameStatus.status = "finished" /\ ~HandlesQuestion)
       => timeRemaining' = QuestionBudget

\* C26: after the client applies a `finished` status update its timeRemaining
\* is 20, and it stays 20 until a game_question event arrives, whatever other
\* events (a countdown event of the ended question that was in flight, in
\* particular) are applied in between
C26_FinishedHoldsTimer == [][HoldStep]_vars

----------------------------------------------------------------------------
(* Properties of the callbacks of replaced sockets (SpecConn) *)

\* a callback of socket s runs in this step.  The record of a socket that is not
\* the current one changes only when one of its own callbacks runs: onclose,
\* onerror, its 5 s connection timeout or the 1 s timer set by its onopen
CallbackOf(s) == sockets[s] # NoSocket /\ sockets'[s] # sockets[s]

StaleCallbackStep ==
  \A s \in SocketIds :
    (hook.wsRef # s /\ CallbackOf(s)) => (hook' = hook /\ connHist' = connHist)

\* C27: close, error and timeout callbacks of a socket that is no longer the
\* hook's current socket change nothing: the connected flag, the heartbeat, the
\* pending reconnect timer, the attempt counter and the connection-target index
\* are left as they were, and no reconnect is scheduled by them
C27_StaleCallbacksIgnored == [][StaleCallbackStep]_vars

\* the hook is connected on its current socket, with the heartbeat about to
\* start, and the close of the socket it replaced has been handled
C27_Witness ==
  /\ hook.mounted
  /\ hook.connected
  /\ ChannelOpen
  /\ sockets[hook.wsRef].heartbeatStart
  /\ \E s \in SocketIds :
       s # hook.wsRef /\ sockets[s].opened /\ sockets[s].readyState = "CLOSED"

----------------------------------------------------------------------------
(* Properties of the collection across a room change (SpecSwitch) *)

\* the rooms of the messages the collection holds
RoomsHeld == {msgRoom[messages[i].id] : i \in 1..Len(messages)}

\* the history fetch of the hook's room has completed
HistoryLoaded ==
  \E f \in 1..Len(fetches) : fetchRoom[f] = roomId /\ fetches[f].phase = "done"

\* C28: after the roomId of the hook changes from X to Y its collection never
\* holds a message of room X together with one of room Y, and once the history
\* fetch of Y has completed it holds only messages of room Y, in any ordering of
\* the two rooms' fetch responses and Y's live events
C28_RoomsNotMixed ==
  /\ Cardinality(RoomsHeld) <= 1
  /\ HistoryLoaded => RoomsHeld \subseteq {roomId}

----------------------------------------------------------------------------
(* Properties of the directory channel (SpecFeed) *)

\* an open directory channel is not replaced, and no directory event is lost
KeptStep ==
  /\ roomsWs.open => roomsWs'.made = roomsWs.made
  /\ dirMissed' = dirMissed

\* C29: the room-directory channel stays the same open connection while
\* RoomProvider is mounted: handling a directory event, or any other state
\* change of RoomProvider, does not close and re-open it, so no directory event
\* broadcast between two handled events is missed
C29_FeedChannelKept == [][KeptStep]_vars

\* the close or error event of the socket in wsRef is handled in this step (a
\* closed socket with no timer left is forgotten in the same step)
CurrentSocketEnds ==
  /\ hook.wsRef # 0
  /\ sockets[hook.wsRef].readyState \in {"CONNECTING", "OPEN", "CLOSING"}
  /\ sockets'[hook.wsRef].readyState \in {"CLOSED", "NONE"}

\* the index never goes down, and it goes up by one only in a step in which the
\* current socket ends abnormally (a reconnect is scheduled or given up) with at
\* least promoteAfterAttempts reconnect attempts made
PromotionStep ==
  /\ hook'.wsUrlIndex >= hook.wsUrlIndex
  /\ hook'.wsUrlIndex # hook.wsUrlIndex =>
       /\ hook'.wsUrlIndex = hook.wsUrlIndex + 1
       /\ hook.reconnectAttempts >= promoteAfterAttempts
       /\ CurrentSocketEnds
       /\ hook'.wsRef = 0
       /\ hook'.reconnectTimeout # NoTimeout \/ hook.reconnectAttempts >= maxReconnectAttempts

\* socket s is made in this step: `new WebSocket(wsUrl)`
AttemptOn(s) == sockets[s].readyState = "NONE" /\ sockets'[s].readyState # "NONE"

\* every socket made in this step is made for the target the index selects
IndexTargetStep ==
  /\ PromotionStep
  /\ \A s \in SocketIds : AttemptOn(s) => sockets'[s].url = hook.wsUrlIndex

\* C30 as stated: the target index starts at the same-origin target (0), is
\* promoted to the direct target (1) only when an abnormal close or error of the
\* current socket happens after at least 2 reconnect attempts, never goes past
\* the last target and is never demoted; each connect attempt uses the target
\* the index then selects.
C30_TargetFollowsIndex ==
  /\ hook.wsUrlIndex = 0
  /\ [](hook.wsUrlIndex \in 0..lastUrlIndex)
  /\ [][IndexTargetStep]_vars

\* every socket made in this step is made for the direct target when the page
\* is served from port 3000, and for the target the index selects otherwise
DevOrIndexTargetStep ==
  /\ PromotionStep
  /\ \A s \in SocketIds :
       AttemptOn(s) => sockets'[s].url = IF hook.preferDirectOnDev THEN 1 ELSE hook.wsUrlIndex

\* C30, amended: the target index starts at 0, is promoted to 1 only when the
\* current socket ends abnormally after at least 2 reconnect attempts, never
\* goes past the last target and is never demoted; each connect attempt uses the
\* target the index then selects, except on a page served from port 3000, where
\* every attempt uses the direct target whatever the index is.
C30_TargetFollowsIndexOffDev ==
  /\ hook.wsUrlIndex = 0
  /\ [](hook.wsUrlIndex \in 0..lastUrlIndex)
  /\ [][DevOrIndexTargetStep]_vars

\* off port 3000, the index has been promoted and the socket in wsRef was made
\* for the direct target, after sockets made for the same-origin target
C30_Witness ==
  /\ ~hook.preferDirectOnDev
  /\ hook.wsUrlIndex = 1
  /\ hook.wsRef # 0
  /\ sockets[hook.wsRef].url = 1
  /\ \E s \in SocketIds : sockets[s].readyState = "CLOSED" /\ sockets[s].url = 0

====
